---- MODULE Spec2Model ----
(***************************************************************************)
(* GridAlpha derived-metrics layer.                                        *)
(*                                                                         *)
(* Each component is modelled with its own specification:                 *)
(*   SpecArb   BatteryArbitrageClient  (src/data/battery_arbitrage.py)     *)
(*   SpecConv  ConvergenceClient       (src/data/convergence.py)           *)
(*   SpecGap   ResourceGapClient       (src/data/resource_gap.py)          *)
(*   SpecFuel  MarginalFuelClient      (src/data/marginal_fuel.py)         *)
(*   SpecZones the two zone-filtered routes of src/api.py                  *)
(*   SpecWx    WeatherClient           (src/data/weather.py)               *)
(*   SpecLmp   the LMP normalizers     (src/data/lmp.py, src/api.py)       *)
(*   SpecSpark SparkSpreadClient       (src/data/spark_spread.py)          *)
(*   SpecEmpty the four engines that take a fetched series                 *)
(*   SpecKey   _get_subscription_key   (src/api.py)                        *)
(*   SpecGet   the retry loop _get     (src/data/lmp.py and its copies)    *)
(*   SpecPages the paginators          (src/data/lmp.py and its copies)    *)
(*   SpecStation the threads of get_weather (src/data/weather.py)          *)
(*                                                                         *)
(* Numbers.  The code computes in binary floating point; the model uses    *)
(* exact integers at a fixed scale.                                        *)
(*   Arbitrage: an LMP and a cycling cost are whole dollars, an efficiency *)
(*   is a whole percentage (90 stands for 0.90), and every reported money  *)
(*   value (a value the code passes through round(x, 4)) is an integer     *)
(*   count of 1e-4 dollars.                                                *)
(*   Convergence: a feed price is an integer count of 1e-5 dollars, and    *)
(*   every value the code passes through .round(4) is an integer count of  *)
(*   1e-4 dollars.                                                         *)
(* A timestamp is the index of its hour; isoformat() is injective on       *)
(* hour-aligned timestamps, so equal strings are equal hour indices.       *)
(***************************************************************************)
EXTENDS Integers, Sequences, FiniteSets, TLC

VARIABLES
    arb_pc,       \* the arbitrage request: "request", "constructed",
                  \*   "raised" or "returned"
    arb_request,  \* <<how the client was asked for, the parameters given>>,
                  \*   and the window_hours of a request of the route
    client,       \* <<the BatteryArbitrageClient's fields>>, or <<>> for none
    http_error,   \* what the request raised: "none", "ValueError", "HTTP422"
    lmp_df,       \* the zone frame get_lmp_by_zone returned
    locals,       \* the frames of each _calculate_zone call, in call order
    results,      \* the list get_arbitrage returned
    conv_pc,      \* the convergence request: "request" or "returned"
    conv_request, \* the zone, DA frame and RT frame of the convergence call
    conv_result,  \* the ConvergenceResult
    gap_pc,       \* the resource-gap call: "request" or "returned"
    gap_request,  \* <<what was called, its arguments>>
    gap_response, \* what the call returned
    fuel_prev,    \* <<the marginal-fuel request served before the last>>
    fuel_call,    \* <<the last marginal-fuel request served>>, with the
                  \*   locals of its timeline and signal computations
    wx_request,   \* the zone, station and fetched frames of a weather call
    wx_result,    \* <<the WeatherResult>>
    norm_request, \* <<the normalizer called, the raw items given>>
    norm_response,\* what it returned, or the exception it raised
    spark_request,  \* <<how spark spread was asked for, the parameters>>
    spark_response, \* the table or response, or what was raised
    _subscription_key,  \* the cached subscription key of api.py, "" for None
    key_lock,  \* _key_lock: whether it is held, and the tasks waiting for it
    key_pc,  \* where each task is in _get_subscription_key
    key_outcome,  \* what the last call of each task returned or raised
    key_calls,  \* how many calls each task has made
    key_fetches,  \* how many settings requests were sent
    key_successes, \* how many of them stored a key
    get_pc,  \* a _get call: "idle", "attempting", "returned" or "raised"
    get_request,  \* <<the client, its max_retries, its key>> at the call
    get_key,  \* the subscription key the client holds, "" for none
    get_attempt,  \* the loop variable attempt
    get_last_exc,  \* last_exc
    get_log,  \* the HTTP requests and sleeps of the call, in order
    get_outcome, \* the body returned or the exception raised
    pg_pc,  \* a pagination call: "idle", "paging", "returned" or "raised"
    pg_call,  \* <<the paginator, the params given, the pages of the server>>
    current_url,  \* the url of the next request, 0 for None
    current_params,  \* the params of the next request, <<>> for None
    all_items,  \* the items collected so far
    pg_requests,  \* the page requests sent, in order
    pg_outcome, \* the list returned, or <<>>
    _station_cache,  \* WeatherClient._station_cache at the cell: <<>> or <<id>>
    st_pc,  \* where each request thread is in get_weather
    st_returned,  \* the station ids each thread was returned, in order
    st_lookups,  \* how many gridpoints requests were sent
    st_late_lookups  \* how many of them after a call had completed

arbVars  == <<arb_pc, arb_request, client, http_error, lmp_df, locals, results>>
convVars == <<conv_pc, conv_request, conv_result>>
gapVars  == <<gap_pc, gap_request, gap_response>>
vars     == <<arb_pc, arb_request, client, http_error, lmp_df, locals, results,
              conv_pc, conv_request, conv_result,
              gap_pc, gap_request, gap_response,
              fuel_prev, fuel_call,
              wx_request, wx_result,
              norm_request, norm_response,
              spark_request, spark_response,
              _subscription_key, key_lock, key_pc, key_outcome, key_calls,
              key_fetches, key_successes,
              get_pc, get_request, get_key, get_attempt, get_last_exc,
              get_log, get_outcome,
              pg_pc, pg_call, current_url, current_params, all_items,
              pg_requests, pg_outcome,
              _station_cache, st_pc, st_returned, st_lookups, st_late_lookups>>
fuelVars == <<fuel_prev, fuel_call>>
wxVars   == <<wx_request, wx_result>>
normVars == <<norm_request, norm_response>>
sparkVars == <<spark_request, spark_response>>
keyVars == <<_subscription_key, key_lock, key_pc, key_outcome, key_calls,
             key_fetches, key_successes>>
getVars == <<get_pc, get_request, get_key, get_attempt, get_last_exc,
             get_log, get_outcome>>
pagesVars == <<pg_pc, pg_call, current_url, current_params, all_items,
               pg_requests, pg_outcome>>
stationVars == <<_station_cache, st_pc, st_returned, st_lookups, st_late_lookups>>

\* what the actions of one component leave alone
arbOthers ==
    <<convVars, gapVars, fuelVars, wxVars, normVars, sparkVars, keyVars,
      getVars, pagesVars, stationVars>>
convOthers ==
    <<arbVars, gapVars, fuelVars, wxVars, normVars, sparkVars, keyVars,
      getVars, pagesVars, stationVars>>
gapOthers ==
    <<arbVars, convVars, fuelVars, wxVars, normVars, sparkVars, keyVars,
      getVars, pagesVars, stationVars>>
fuelOthers ==
    <<arbVars, convVars, gapVars, wxVars, normVars, sparkVars, keyVars,
      getVars, pagesVars, stationVars>>
wxOthers ==
    <<arbVars, convVars, gapVars, fuelVars, normVars, sparkVars, keyVars,
      getVars, pagesVars>>
normOthers ==
    <<arbVars, convVars, gapVars, fuelVars, wxVars, sparkVars, keyVars,
      getVars, pagesVars, stationVars>>
sparkOthers ==
    <<arbVars, convVars, gapVars, fuelVars, wxVars, normVars, keyVars,
      getVars, pagesVars, stationVars>>
keyOthers ==
    <<arbVars, convVars, gapVars, fuelVars, wxVars, normVars, sparkVars,
      getVars, pagesVars, stationVars>>
getOthers ==
    <<arbVars, convVars, gapVars, fuelVars, wxVars, normVars, sparkVars,
      keyVars, pagesVars, stationVars>>
pagesOthers ==
    <<arbVars, convVars, gapVars, fuelVars, wxVars, normVars, sparkVars,
      keyVars, getVars, stationVars>>

NoClient == <<>>
NoFrames == <<>>

-----------------------------------------------------------------------------
(* Bounds of the model *)

\* longest zone series the LMP feed returns in the general input family
MaxHours == 4

-----------------------------------------------------------------------------
(* Arithmetic helpers *)

Min2(a, b) == IF a <= b THEN a ELSE b

\* round(): num/den (den > 0) to the nearest integer, a tie going to the even
\* neighbour, as Python's round and numpy's rint do.
RoundHalfEven(num, den) ==
    LET q == num \div den
        r == num % den
    IN  IF 2 * r < den THEN q
        ELSE IF 2 * r > den THEN q + 1
        ELSE IF q % 2 = 0 THEN q ELSE q + 1

\* round(num/den, 4) for num/den in dollars; the result counts 1e-4 dollars
Round4(num, den) == RoundHalfEven(num * 10000, den)

RECURSIVE SumPrices(_)
SumPrices(frame) ==
    IF frame = <<>> THEN 0
    ELSE Head(frame).lmp_total + SumPrices(Tail(frame))

-----------------------------------------------------------------------------
(* BatteryArbitrageClient *)

\* efficiency exactly 1.0 refused
ConfigValidBelowOne(efficiency, n_charge_hours, n_discharge_hours, cycling_cost) ==
    /\ 0 < efficiency /\ efficiency < 100
    /\ ~(n_charge_hours < 1 \/ n_discharge_hours < 1)
    /\ ~(cycling_cost < 0)

\* __init__'s three checks; efficiency is in percent
ConfigValid(efficiency, n_charge_hours, n_discharge_hours, cycling_cost) ==
    /\ 0 < efficiency /\ efficiency <= 100
    /\ ~(n_charge_hours < 1 \/ n_discharge_hours < 1)
    /\ ~(cycling_cost < 0)

\* the bounds the route declares on its query parameters (Query(ge=, le=)),
\* which the framework enforces before the body runs
QueryValid(window_hours, efficiency, n_charge_hours, n_discharge_hours, cycling_cost) ==
    /\ 4 <= window_hours /\ window_hours <= 168
    /\ 50 <= efficiency /\ efficiency <= 99
    /\ 1 <= n_charge_hours /\ n_charge_hours <= 12
    /\ 1 <= n_discharge_hours /\ n_discharge_hours <= 12
    /\ cycling_cost >= 0

\* the checks of the route's body before it constructs the client
RouteValid(efficiency, n_charge_hours, n_discharge_hours) ==
    /\ 50 <= efficiency /\ efficiency <= 99
    /\ ~(n_charge_hours + n_discharge_hours > 12)

\* df.sort_values("lmp_total"): every order of the rows that is ascending in
\* lmp_total.  The order of rows of equal price is left to the sort (the
\* default kind is not stable), so each such order is a possible outcome.
RECURSIVE SortedOrders(_, _)
SortedOrders(df, rows) ==
    IF rows = {} THEN {<<>>}
    ELSE LET lowest == {i \in rows :
                          \A j \in rows : df[i].lmp_total <= df[j].lmp_total}
         IN  UNION {{<<df[i]>> \o rest : rest \in SortedOrders(df, rows \ {i})}
                    : i \in lowest}

sort_values(df) == SortedOrders(df, DOMAIN df)

\* the comparison of the gate turned round
ClearsGateInverted(row, pct, charge_sum, n_charge, cycling_cost) ==
    row.lmp_total * pct * n_charge - 100 * charge_sum
        < 100 * cycling_cost * n_charge

\* an hour at the hurdle let through
ClearsGateAtHurdle(row, pct, charge_sum, n_charge, cycling_cost) ==
    row.lmp_total * pct * n_charge - 100 * charge_sum
        >= 100 * cycling_cost * n_charge

\* the dispatch gate of one candidate row:
\*   lmp_total * efficiency - charge_price_raw > cycling_cost
\* with efficiency = pct/100 and charge_price_raw = charge_sum/n_charge,
\* cleared of denominators (n_charge > 0).
ClearsGate(row, pct, charge_sum, n_charge, cycling_cost) ==
    row.lmp_total * pct * n_charge - 100 * charge_sum
        > 100 * cycling_cost * n_charge

\* the first n rows of the ascending frame taken instead of the n dearest
nlargestAsHead(n, frame) == SubSeq(frame, 1, Min2(n, Len(frame)))

\* qualifying_df.nlargest(n, "lmp_total"): descending by price, rows of equal
\* price in frame order (keep="first")
RECURSIVE nlargest(_, _)
nlargest(n, frame) ==
    IF n = 0 \/ frame = <<>> THEN <<>>
    ELSE LET k == CHOOSE i \in DOMAIN frame :
                    /\ \A j \in DOMAIN frame :
                          frame[j].lmp_total <= frame[i].lmp_total
                    /\ \A j \in 1..(i - 1) :
                          frame[j].lmp_total < frame[i].lmp_total
             rest == [j \in 1..(Len(frame) - 1) |->
                         IF j < k THEN frame[j] ELSE frame[j + 1]]
         IN  <<frame[k]>> \o nlargest(n - 1, rest)

Timestamps(frame) == [i \in DOMAIN frame |-> frame[i].timestamp_ept]

RECURSIVE MaxTimestamp(_)
MaxTimestamp(frame) ==
    IF Len(frame) = 1 THEN frame[1].timestamp_ept
    ELSE LET m == MaxTimestamp(Tail(frame))
         IN  IF frame[1].timestamp_ept >= m THEN frame[1].timestamp_ept ELSE m

\* the cap at half the series left out
ChargeCountUncapped(configured, n_hours) == Min2(configured, n_hours)

\* n_charge = min(self.n_charge, n_hours // 2 or 1)
ChargeCount(configured, n_hours) ==
    LET half == n_hours \div 2
    IN  Min2(configured, IF half = 0 THEN 1 ELSE half)

\* the efficiency not applied to the discharge price
DischargePriceRaw(discharge_df, n_discharge, pct) ==
    IF n_discharge > 0
    THEN Round4(SumPrices(discharge_df), n_discharge)
    ELSE 0

\* round(discharge_df["lmp_total"].mean() * self.efficiency, 4), or 0.0 when
\* nothing is discharged
DischargePriceEff(discharge_df, n_discharge, pct) ==
    IF n_discharge > 0
    THEN Round4(SumPrices(discharge_df) * pct, n_discharge * 100)
    ELSE 0

\* _calculate_zone on the zone's frame as sort_values left it (Len(df) >= 1:
\* groupby yields no empty group).  Returns the call's frames and the result
\* record.
_calculate_zone(self, zone_name, df) ==
    LET n_hours          == Len(df)
        n_charge         == ChargeCount(self.n_charge, n_hours)
        charge_df        == SubSeq(df, 1, n_charge)
        charge_sum       == SumPrices(charge_df)
        charge_price     == Round4(charge_sum, n_charge)
        candidate_df     == SubSeq(df, n_charge + 1, n_hours)
        Qualifies(row)   == ClearsGate(row, self.efficiency, charge_sum,
                                       n_charge, self.cycling_cost)
        qualifying_df    == SelectSeq(candidate_df, Qualifies)
        n_discharge      == Min2(self.n_discharge, Len(qualifying_df))
        hours_gated_out  == Len(candidate_df) - Len(qualifying_df)
        discharge_df     == nlargest(n_discharge, qualifying_df)
        discharge_price_eff ==
            DischargePriceEff(discharge_df, n_discharge, self.efficiency)
        daily_spread        == discharge_price_eff - charge_price
        total_cycling_costs == self.cycling_cost * 10000 * n_discharge
        net_profit          == daily_spread - self.cycling_cost * 10000
    IN  [frames |->
            [zone_name     |-> zone_name,
             df            |-> df,
             charge_df     |-> charge_df,
             candidate_df  |-> candidate_df,
             qualifying_df |-> qualifying_df,
             discharge_df  |-> discharge_df],
         result |->
            [zone_name             |-> zone_name,
             charge_hours          |-> Timestamps(charge_df),
             discharge_hours       |-> Timestamps(discharge_df),
             charge_price          |-> charge_price,
             discharge_price       |-> discharge_price_eff,
             round_trip_efficiency |-> self.efficiency,
             cycling_cost          |-> self.cycling_cost,
             daily_spread_per_mwh  |-> daily_spread,
             total_cycling_costs   |-> total_cycling_costs,
             net_profit_per_mwh    |-> net_profit,
             is_profitable         |-> net_profit > 0,
             timestamp             |-> MaxTimestamp(df),
             hours_available       |-> n_hours,
             charge_hours_used     |-> n_charge,
             discharge_hours_used  |-> n_discharge,
             hours_gated_out       |-> hours_gated_out]]

\* the zones of the arbitrage inputs, in ascending order of name
ArbZones == <<"AEP", "BGE">>

\* lmp_df.groupby("zone_name"): one (zone, zone_df) pair per zone present, in
\* ascending order of zone name, the rows of a group in frame order
groupby(df) ==
    LET Present(zone) == \E i \in DOMAIN df : df[i].zone_name = zone
        keys          == SelectSeq(ArbZones, Present)
    IN  [k \in DOMAIN keys |->
            LET InGroup(row) == row.zone_name = keys[k]
            IN  [zone |-> keys[k], zone_df |-> SelectSeq(df, InGroup)]]

\* the loop of get_arbitrage over the groups: the possible sequences of
\* _calculate_zone calls, one call per group and one sorted order per call
RECURSIVE ZoneCalls(_, _)
ZoneCalls(self, groups) ==
    IF groups = <<>> THEN {<<>>}
    ELSE {<<_calculate_zone(self, Head(groups).zone, sorted)>> \o rest :
              sorted \in sort_values(Head(groups).zone_df),
              rest \in ZoneCalls(self, Tail(groups))}

\* results.sort(key=lambda r: r.daily_spread_per_mwh, reverse=True): descending
\* by spread, results of equal spread keeping their order (the sort is stable
\* under reverse=True)
RECURSIVE sort_reverse(_)
sort_reverse(list) ==
    IF list = <<>> THEN <<>>
    ELSE LET k == CHOOSE i \in DOMAIN list :
                    /\ \A j \in DOMAIN list :
                          list[j].daily_spread_per_mwh
                              <= list[i].daily_spread_per_mwh
                    /\ \A j \in 1..(i - 1) :
                          list[j].daily_spread_per_mwh
                              < list[i].daily_spread_per_mwh
             rest == [j \in 1..(Len(list) - 1) |->
                         IF j < k THEN list[j] ELSE list[j + 1]]
         IN  <<list[k]>> \o sort_reverse(rest)

-----------------------------------------------------------------------------
(* Inputs of the arbitrage specification *)

EfficiencyInputs == {0, 90, 100, 110}
HourCountInputs  == {0, 1, 2, 3}
CostInputs       == {-5, 0, 5, 85}
PriceInputs      == {-50, 10, 100}

\* the configuration of the two worked scenarios (n_charge = n_discharge = 4,
\* efficiency 0.9), at cycling costs below, at and above the 80 $ margin
ScenarioConfigs ==
    {[efficiency |-> 90, n_charge |-> 4, n_discharge |-> 4, cycling_cost |-> c]
        : c \in {5, 80, 85}}

\* configurations at the route's limits: 13 hours in all, and 13 charge hours
RouteLimitConfigs ==
    {[efficiency |-> 90, n_charge |-> nc, n_discharge |-> nd, cycling_cost |-> 5]
        : <<nc, nd>> \in {<<6, 7>>, <<13, 1>>, <<6, 6>>}}

\* the window_hours a request of the route names (24 when it names none)
WindowInputs == {3, 24, 169}

ConfigInputs ==
    [efficiency : EfficiencyInputs, n_charge : HourCountInputs,
     n_discharge : HourCountInputs, cycling_cost : CostInputs]
    \cup ScenarioConfigs \cup RouteLimitConfigs

\* A frame of one zone, n rows in feed order (ascending hour).  Hours are distinct,
\* or the first two rows carry the same hour-beginning EPT label, as the feed
\* does for the repeated 01:00 hour of the autumn clock change (_parse keeps
\* every row it is given).
HourLabels(n) ==
    {[i \in 1..n |-> i]} \cup
    (IF n >= 2 THEN {[i \in 1..n |-> IF i = 1 THEN 1 ELSE i - 1]} ELSE {})

FramesOfLength(n) ==
    {[i \in 1..n |-> [zone_name |-> "AEP", timestamp_ept |-> ts[i],
                      lmp_total |-> p[i]]]
        : ts \in HourLabels(n), p \in [1..n -> PriceInputs]}

ScenarioFrame ==
    [i \in 1..8 |-> [zone_name |-> "AEP", timestamp_ept |-> i,
                     lmp_total |-> IF i <= 4 THEN 10 ELSE 100]]

\* six hours whose three cheapest average to -40/3 dollars
ThirdsFrame ==
    [i \in 1..6 |-> [zone_name |-> "BGE", timestamp_ept |-> i,
                     lmp_total |-> <<-50, 0, 10, 100, 100, 100>>[i]]]

\* two hours of two zones, the feed's rows hour by hour with BGE before AEP
\* within the hour
TwoZoneFrame(aep, bge) ==
    [i \in 1..4 |->
        [zone_name     |-> IF i % 2 = 1 THEN "BGE" ELSE "AEP",
         timestamp_ept |-> (i + 1) \div 2,
         lmp_total     |-> IF i % 2 = 1 THEN bge[(i + 1) \div 2]
                           ELSE aep[(i + 1) \div 2]]]

TwoZoneFrames ==
    {TwoZoneFrame(aep, bge) : aep \in [1..2 -> PriceInputs \cup {20}],
                              bge \in [1..2 -> PriceInputs]}

FrameInputs ==
    UNION {FramesOfLength(n) : n \in 0..MaxHours}
        \cup {ScenarioFrame, ThirdsFrame} \cup TwoZoneFrames

-----------------------------------------------------------------------------
(* Actions of the arbitrage specification *)

Config(e, nc, nd, cc) ==
    [efficiency |-> e, n_charge |-> nc, n_discharge |-> nd, cycling_cost |-> cc]

\* BatteryArbitrageClient(...): __init__ validates, then stores the fields
BatteryArbitrageClient(cfg) ==
    IF ConfigValid(cfg.efficiency, cfg.n_charge, cfg.n_discharge,
                   cfg.cycling_cost)
    THEN /\ client' = <<cfg>>
         /\ http_error' = "none"
         /\ arb_pc' = "constructed"
    ELSE /\ client' = NoClient
         /\ http_error' = "ValueError"
         /\ arb_pc' = "raised"

\* fetch_battery_arbitrage / the smoke test: the client is constructed directly
Construct ==
    /\ arb_pc = "request"
    /\ \E cfg \in ConfigInputs :
          /\ arb_request' = <<"direct", cfg>>
          /\ BatteryArbitrageClient(cfg)
    /\ UNCHANGED <<lmp_df, locals, results>>
    /\ UNCHANGED arbOthers

\* GET /battery-arbitrage: the bounds of the query parameters, the checks of
\* the body, then the constructor
get_battery_arbitrage ==
    /\ arb_pc = "request"
    /\ \E cfg \in ConfigInputs, window_hours \in WindowInputs :
          /\ arb_request' = <<"route", cfg, window_hours>>
          /\ IF /\ QueryValid(window_hours, cfg.efficiency, cfg.n_charge,
                              cfg.n_discharge, cfg.cycling_cost)
                /\ RouteValid(cfg.efficiency, cfg.n_charge, cfg.n_discharge)
             THEN BatteryArbitrageClient(cfg)
             ELSE /\ client' = NoClient
                  /\ http_error' = "HTTP422"
                  /\ arb_pc' = "raised"
    /\ UNCHANGED <<lmp_df, locals, results>>
    /\ UNCHANGED arbOthers

\* client.get_arbitrage(window_hours): fetch the frame, then one
\* _calculate_zone per zone group, then the results sorted by spread
get_arbitrage ==
    /\ arb_pc = "constructed"
    /\ arb_pc' = "returned"
    /\ \E df \in FrameInputs :
          /\ lmp_df' = df
          /\ IF df = <<>>
             THEN locals' = NoFrames /\ results' = <<>>
             ELSE \E calls \in ZoneCalls(client[1], groupby(df)) :
                     /\ locals' = [k \in DOMAIN calls |-> calls[k].frames]
                     /\ results' = sort_reverse(
                                       [k \in DOMAIN calls |-> calls[k].result])
    /\ UNCHANGED <<arb_request, client, http_error>>
    /\ UNCHANGED arbOthers

ArbIdle ==
    /\ arb_pc = "request"
    /\ arb_request = <<>>
    /\ client = NoClient
    /\ http_error = "none"
    /\ lmp_df = <<>>
    /\ locals = NoFrames
    /\ results = <<>>

ConvIdle ==
    /\ conv_pc = "request"
    /\ conv_request = <<>>
    /\ conv_result = <<>>

GapIdle ==
    /\ gap_pc = "request"
    /\ gap_request = <<>>
    /\ gap_response = <<>>

FuelIdle ==
    /\ fuel_prev = <<>>
    /\ fuel_call = <<>>

WxIdle ==
    /\ wx_request = <<>>
    /\ wx_result = <<>>

NormIdle ==
    /\ norm_request = <<>>
    /\ norm_response = <<>>

SparkIdle ==
    /\ spark_request = <<>>
    /\ spark_response = <<>>

\* the tasks of the event loop that call _get_subscription_key, and the calls
\* each of them makes
NumTasks == 3
MaxCalls == 2
KeyTasks == 1..NumTasks
NoOutcome == [status |-> "none", key |-> ""]

KeyIdle ==
    /\ _subscription_key = ""
    /\ key_lock = [locked |-> FALSE, waiters |-> <<>>]
    /\ key_pc = [t \in KeyTasks |-> "idle"]
    /\ key_outcome = [t \in KeyTasks |-> NoOutcome]
    /\ key_calls = [t \in KeyTasks |-> 0]
    /\ key_fetches = 0
    /\ key_successes = 0

\* an exception of a _get call: its kind and the attempt that met it
Exception(kind, attempt) == [kind |-> kind, attempt |-> attempt]
NoException == Exception("none", 0)

GetIdle ==
    /\ get_pc = "idle"
    /\ get_request = <<>>
    /\ get_key = ""
    /\ get_attempt = 0
    /\ get_last_exc = NoException
    /\ get_log = <<>>
    /\ get_outcome = NoException

PagesIdle ==
    /\ pg_pc = "idle"
    /\ pg_call = <<>>
    /\ current_url = 0
    /\ current_params = <<>>
    /\ all_items = <<>>
    /\ pg_requests = <<>>
    /\ pg_outcome = <<>>

\* the request threads asyncio.to_thread runs get_weather on, and the calls
\* of _resolve_station each of them makes for the grid cell
NumThreads == 3
MaxStationCalls == 2
StationThreads == 1..NumThreads

StationIdle ==
    /\ _station_cache = <<>>
    /\ st_pc = [t \in StationThreads |-> "idle"]
    /\ st_returned = [t \in StationThreads |-> <<>>]
    /\ st_lookups = 0
    /\ st_late_lookups = 0

\* every component other than the one a specification is about
AllIdle ==
    /\ ArbIdle /\ ConvIdle /\ GapIdle /\ FuelIdle
    /\ WxIdle /\ NormIdle /\ SparkIdle /\ KeyIdle
    /\ GetIdle /\ PagesIdle /\ StationIdle

InitArb == AllIdle

NextArb == Construct \/ get_battery_arbitrage \/ get_arbitrage

SpecArb == InitArb /\ [][NextArb]_vars

-----------------------------------------------------------------------------
(* ConvergenceClient *)

\* event thresholds on the spread, in 1e-4 dollars
SCARCITY_THRESHOLD   == 500000
OVERSUPPLY_THRESHOLD == -500000
\* share of the hours, in percent, a direction must exceed to dominate
NARRATIVE_THRESHOLD  == 60

NARRATIVE_VIRTUAL_SELLER == "virtual sellers were profitable"
NARRATIVE_VIRTUAL_BUYER  == "virtual buyers were profitable"
NARRATIVE_MIXED          == "no dominant virtual trading direction"

\* the zone name compared as it was typed
UpperSkipped(name) == name

\* str.upper() on the zone names of the model
Upper(name) ==
    CASE name = "bge"  -> "BGE"
      [] name = "peco" -> "PECO"
      [] name = "dom"  -> "DOM"
      [] name = "Dpl"  -> "DPL"
      [] name = "dpl"  -> "DPL"
      [] name = "ovec" -> "OVEC"
      [] name = "xyz"  -> "XYZ"
      [] OTHER         -> name

\* Series.round(4) of num/den: the nearest multiple of 1e-4.  When num/den
\* lies exactly half-way, the binary value the code rounds is a little above
\* or below it, so either neighbour can come out.
RoundOutcomes(num, den) ==
    LET q == num \div den
        r == num % den
    IN  IF 2 * r < den THEN {q}
        ELSE IF 2 * r > den THEN {q + 1}
        ELSE {q, q + 1}

\* df[df["zone_name"].str.upper() == zone]
ZoneRows(df, zone) ==
    LET OfZone(row) == Upper(row.zone_name) = zone
    IN  SelectSeq(df, OfZone)

\* the frames joined row by row, in feed position, not on the timestamp
mergeByPosition(da_zone, rt_zone) ==
    [i \in 1..Min2(Len(da_zone), Len(rt_zone)) |->
        [timestamp_ept |-> da_zone[i].timestamp_ept,
         da_price      |-> da_zone[i].da_price,
         rt_price      |-> rt_zone[i].rt_price]]

\* pd.merge(da_zone, rt_zone, on="timestamp_ept", how="inner"): every pair of
\* a DA row and an RT row of equal timestamp, in the order of the DA rows
RECURSIVE merge(_, _)
merge(da_zone, rt_zone) ==
    IF da_zone = <<>> THEN <<>>
    ELSE LET left == Head(da_zone)
             SameHour(row) == row.timestamp_ept = left.timestamp_ept
             right == SelectSeq(rt_zone, SameHour)
         IN  [i \in DOMAIN right |->
                 [timestamp_ept |-> left.timestamp_ept,
                  da_price      |-> left.da_price,
                  rt_price      |-> right[i].rt_price]]
             \o merge(Tail(da_zone), rt_zone)

\* merged.sort_values("timestamp_ept"): every order ascending in the
\* timestamp; rows of one timestamp come in whatever order the sort leaves
RECURSIVE OrdersByTimestamp(_, _)
OrdersByTimestamp(df, rows) ==
    IF rows = {} THEN {<<>>}
    ELSE LET first == {i \in rows : \A j \in rows :
                          df[i].timestamp_ept <= df[j].timestamp_ept}
         IN  UNION {{<<df[i]>> \o rest
                        : rest \in OrdersByTimestamp(df, rows \ {i})}
                    : i \in first}

\* thresholds taken as inclusive
_flagInclusive(s) ==
    IF s >= SCARCITY_THRESHOLD THEN "Scarcity"
    ELSE IF s <= OVERSUPPLY_THRESHOLD THEN "Oversupply"
    ELSE "Normal"

_flag(s) ==
    IF s > SCARCITY_THRESHOLD THEN "Scarcity"
    ELSE IF s < OVERSUPPLY_THRESHOLD THEN "Oversupply"
    ELSE "Normal"

\* the ConvergenceHour records one merged row can give (feed prices are in
\* 1e-5 dollars, rounded values in 1e-4 dollars)
RecordOutcomes(row) ==
    {[hour       |-> row.timestamp_ept,
      da_price   |-> da,
      rt_price   |-> rt,
      spread     |-> spread,
      event_flag |-> _flag(spread)]
        : da \in RoundOutcomes(row.da_price, 10),
          rt \in RoundOutcomes(row.rt_price, 10),
          spread \in RoundOutcomes(row.rt_price - row.da_price, 10)}

RECURSIVE SumSpreads(_)
SumSpreads(records) ==
    IF records = <<>> THEN 0
    ELSE Head(records).spread + SumSpreads(Tail(records))

\* (records flagged `flag`).sum()
CountFlag(records, flag) ==
    Cardinality({i \in DOMAIN records : records[i].event_flag = flag})

\* a share of exactly the threshold taken as dominant
_generate_narrativeInclusive(records) ==
    LET n == Len(records)
        rt_below_da == Cardinality({i \in DOMAIN records : records[i].spread < 0})
        rt_above_da == Cardinality({i \in DOMAIN records : records[i].spread > 0})
    IN  IF n = 0 THEN <<"MIXED", NARRATIVE_MIXED>>
        ELSE IF 100 * rt_below_da >= NARRATIVE_THRESHOLD * n
             THEN <<"VIRTUAL_SELLER", NARRATIVE_VIRTUAL_SELLER>>
        ELSE IF 100 * rt_above_da >= NARRATIVE_THRESHOLD * n
             THEN <<"VIRTUAL_BUYER", NARRATIVE_VIRTUAL_BUYER>>
        ELSE <<"MIXED", NARRATIVE_MIXED>>

\* _generate_narrative(spreads): <<dominant_signal, market_narrative>>
_generate_narrative(records) ==
    LET n == Len(records)
        rt_below_da == Cardinality({i \in DOMAIN records : records[i].spread < 0})
        rt_above_da == Cardinality({i \in DOMAIN records : records[i].spread > 0})
    IN  IF n = 0 THEN <<"MIXED", NARRATIVE_MIXED>>
        ELSE IF 100 * rt_below_da > NARRATIVE_THRESHOLD * n
             THEN <<"VIRTUAL_SELLER", NARRATIVE_VIRTUAL_SELLER>>
        ELSE IF 100 * rt_above_da > NARRATIVE_THRESHOLD * n
             THEN <<"VIRTUAL_BUYER", NARRATIVE_VIRTUAL_BUYER>>
        ELSE <<"MIXED", NARRATIVE_MIXED>>

\* an `empty` result that carries the convergence signal
EmptyResultConverged(zone) ==
    [zone |-> zone, records |-> <<>>,
     avg_spread |-> 0, max_spread |-> 0, min_spread |-> 0,
     scarcity_hours |-> 0, oversupply_hours |-> 0, total_hours |-> 0,
     dominant_signal |-> "CONVERGED", market_narrative |-> NARRATIVE_MIXED]

\* the `empty` result of _build_result
EmptyResult(zone) ==
    [zone |-> zone, records |-> <<>>,
     avg_spread |-> 0, max_spread |-> 0, min_spread |-> 0,
     scarcity_hours |-> 0, oversupply_hours |-> 0, total_hours |-> 0,
     dominant_signal |-> "MIXED", market_narrative |-> NARRATIVE_MIXED]

\* the result _build_result assembles from the records (Len(records) >= 1)
\* and the rounded mean avg
ResultOf(zone, records, avg) ==
    LET spreads   == {records[i].spread : i \in DOMAIN records}
        narrative == _generate_narrative(records)
    IN  [zone |-> zone, records |-> records,
         avg_spread |-> avg,
         max_spread |-> CHOOSE x \in spreads : \A y \in spreads : y <= x,
         min_spread |-> CHOOSE x \in spreads : \A y \in spreads : x <= y,
         scarcity_hours   |-> CountFlag(records, "Scarcity"),
         oversupply_hours |-> CountFlag(records, "Oversupply"),
         total_hours      |-> Len(records),
         dominant_signal  |-> narrative[1],
         market_narrative |-> narrative[2]]

\* _build_result(zone, da_df, rt_df, ...): the results it can return.  The
\* window bounds are passed through unchanged and are left out.
_build_result(zone, da_df, rt_df) ==
    LET da_zone == ZoneRows(da_df, zone)
        rt_zone == ZoneRows(rt_df, zone)
        joined  == merge(da_zone, rt_zone)
    IN  IF da_df = <<>> \/ rt_df = <<>> THEN {EmptyResult(zone)}
        ELSE IF da_zone = <<>> \/ rt_zone = <<>> THEN {EmptyResult(zone)}
        ELSE IF joined = <<>> THEN {EmptyResult(zone)}
        ELSE UNION {
               UNION {
                 {ResultOf(zone, records, avg)
                    : avg \in RoundOutcomes(SumSpreads(records), Len(records))}
                 : records \in
                     {f \in [DOMAIN merged ->
                               UNION {RecordOutcomes(merged[i])
                                        : i \in DOMAIN merged}] :
                        \A i \in DOMAIN merged :
                            f[i] \in RecordOutcomes(merged[i])}}
               : merged \in OrdersByTimestamp(joined, DOMAIN joined)}

-----------------------------------------------------------------------------
(* Inputs of the convergence specification *)

\* rows per feed and hours of the window in the join family
MaxJoinRows == 3
MaxJoinHour == 4

\* aligned hours in the narrative family
NarrativeHours == 5

ZoneInputs == {"BGE", "bge", "DOM"}

\* feed prices in 1e-5 dollars: 10.0 and 10.00004 day-ahead; 60.0, 60.0001,
\* 60.00009, -40.0 and -40.0001 real-time
DaPriceInputs == {1000000, 1000004}
RtPriceInputs == {6000000, 6000010, 6000009, -4000000, -4000010}

DaRow(zone, hour, price) ==
    [zone_name |-> zone, timestamp_ept |-> hour, da_price |-> price]
RtRow(zone, hour, price) ==
    [zone_name |-> zone, timestamp_ept |-> hour, rt_price |-> price]

\* the rows of a feed in the order the API's sort gives: ascending hour
RECURSIVE InFeedOrder(_)
InFeedOrder(rows) ==
    IF rows = {} THEN <<>>
    ELSE LET first == CHOOSE r \in rows : \A q \in rows :
                         \/ r.timestamp_ept < q.timestamp_ept
                         \/ /\ r.timestamp_ept = q.timestamp_ept
                            /\ (r.zone_name = "BGE" \/ q.zone_name # "BGE")
         IN  <<first>> \o InFeedOrder(rows \ {first})

\* feeds over a set of rows with distinct (zone, hour): up to MaxJoinRows
\* rows in feed order, the first row possibly returned twice
FeedsOver(rows) ==
    LET picks == {S \in SUBSET rows : Cardinality(S) <= MaxJoinRows}
    IN  {InFeedOrder(S) : S \in picks}
        \cup {<<InFeedOrder(S)[1]>> \o InFeedOrder(S)
                : S \in {T \in picks :
                           T # {} /\ Cardinality(T) < MaxJoinRows}}

\* join family: BGE rows at one price per feed over hours 1..MaxJoinHour and
\* one row of another zone at hour 2
JoinPairs ==
    {<<da, rt>> :
        da \in FeedsOver({DaRow("BGE", h, 1000000) : h \in 1..MaxJoinHour}
                           \cup {DaRow("PECO", 2, 2000000)}),
        rt \in FeedsOver({RtRow("BGE", h, 6000000) : h \in 1..MaxJoinHour}
                           \cup {RtRow("PECO", 2, 9000000)})}

\* flag family: both feeds hold hours 1 and 2 of BGE, at every price
FlagPairs ==
    {<<[h \in 1..2 |-> DaRow("BGE", h, da[h])],
       [h \in 1..2 |-> RtRow("BGE", h, rt[h])]>> :
        da \in [1..2 -> DaPriceInputs], rt \in [1..2 -> RtPriceInputs]}

-----------------------------------------------------------------------------
(* Narrative inputs of the convergence specification *)

\* narrative family: both feeds hold hours 1..NarrativeHours of BGE; each
\* hour's RT price is above the DA price, below it, equal to it, or above it
\* by less than the rounding step
NarrativeRtInputs == {6000000, -4000000, 1000000, 1000004}

NarrativePairs ==
    {<<[h \in 1..NarrativeHours |-> DaRow("BGE", h, 1000000)],
       [h \in 1..NarrativeHours |-> RtRow("BGE", h, rt[h])]>> :
        rt \in [1..NarrativeHours -> NarrativeRtInputs]}

-----------------------------------------------------------------------------
(* Actions of the convergence specification *)

\* get_convergence / get_convergence_rolling: upper-case the zone, fetch and
\* parse both feeds, build the result
get_convergence ==
    /\ conv_pc = "request"
    /\ conv_pc' = "returned"
    /\ \E name \in ZoneInputs, feeds \in JoinPairs \cup FlagPairs \cup NarrativePairs :
          LET zone == Upper(name)
          IN  /\ conv_request' = <<name, feeds[1], feeds[2]>>
              /\ \E result \in _build_result(zone, feeds[1], feeds[2]) :
                    conv_result' = <<result>>
    /\ UNCHANGED convOthers

InitConv == AllIdle

NextConv == get_convergence

SpecConv == InitConv /\ [][NextConv]_vars

-----------------------------------------------------------------------------
(* ResourceGapClient *)
(*   A capacity is an integer count of 0.1 MW where the code rounds it to  *)
(*   one decimal (adjusted queue, ELCC-adjusted capacity, deficit) and a    *)
(*   whole MW in the zone table; a queue success rate is a count of 0.001;  *)
(*   a mix fraction and an ELCC factor are whole percentages, so an average *)
(*   ELCC counts 1e-4.                                                      *)

Max2(a, b) == IF a >= b THEN a ELSE b

Abs(x) == IF x < 0 THEN -x ELSE x

QUEUE_SUCCESS_RATE == 174

ELCC ==
    ("Solar" :> 19) @@ ("Wind_Onshore" :> 13) @@ ("Wind_Offshore" :> 25)
    @@ ("Storage" :> 91) @@ ("Gas_CC" :> 95) @@ ("Gas_CT" :> 85)
    @@ ("Nuclear" :> 95) @@ ("Other" :> 50)

\* the keys of _ZONE_PROFILES, in the order the dict holds them
ZoneKeys ==
    <<"BGE", "PENELEC", "AEP", "DOM", "DEOK", "EKPC", "ATSI", "PPL", "METED",
      "COMED", "DAY", "DUQ", "PECO", "PSEG", "AECO", "JCPL", "DPL", "PEPCO",
      "APS", "RECO", "PJM-RTO">>

\* the zone table (a dash in a plant description is written "-")
_ZONE_PROFILES ==
    "BGE" :>
      [retiring_mw |-> 1816, queue_mw |-> 10400, peak_load_mw |-> 7800,
       queue_mix |-> <<<<"Solar", 58>>, <<"Wind_Onshore", 6>>, <<"Wind_Offshore", 10>>, <<"Storage", 18>>, <<"Gas_CC", 5>>, <<"Other", 3>>>>,
       key_retirements |->
          <<"Brandon Shores (1,294 MW Coal, AES - 2025)",
            "Herbert A. Wagner (522 MW Coal, BGE - 2025)">>]
  @@
    "PENELEC" :>
      [retiring_mw |-> 1711, queue_mw |-> 7800, peak_load_mw |-> 5200,
       queue_mix |-> <<<<"Solar", 52>>, <<"Wind_Onshore", 18>>, <<"Storage", 18>>, <<"Gas_CC", 8>>, <<"Other", 4>>>>,
       key_retirements |->
          <<"Keystone (1,711 MW Coal, NRG - phase-out through 2025)">>]
  @@
    "AEP" :>
      [retiring_mw |-> 4500, queue_mw |-> 28000, peak_load_mw |-> 22000,
       queue_mix |-> <<<<"Solar", 60>>, <<"Wind_Onshore", 16>>, <<"Storage", 14>>, <<"Gas_CC", 6>>, <<"Other", 4>>>>,
       key_retirements |->
          <<"Cardinal (1,000 MW Coal, AEP Ohio)",
            "Mountaineer (1,188 MW Coal, AEP WV)",
            "Kammer (630 MW Coal, AEP WV)",
            "Amos Unit 1 & 2 (1,004 MW Coal, AEP WV)">>]
  @@
    "DOM" :>
      [retiring_mw |-> 2300, queue_mw |-> 25000, peak_load_mw |-> 19000,
       queue_mix |-> <<<<"Solar", 68>>, <<"Wind_Offshore", 10>>, <<"Storage", 14>>, <<"Gas_CC", 5>>, <<"Other", 3>>>>,
       key_retirements |->
          <<"Chesterfield (1,358 MW Coal, Dominion VA)",
            "Bremo (420 MW Coal, Dominion VA)",
            "Possum Point (522 MW Oil/Gas, Dominion VA)">>]
  @@
    "DEOK" :>
      [retiring_mw |-> 2520, queue_mw |-> 12000, peak_load_mw |-> 6500,
       queue_mix |-> <<<<"Solar", 55>>, <<"Wind_Onshore", 18>>, <<"Storage", 16>>, <<"Gas_CC", 8>>, <<"Other", 3>>>>,
       key_retirements |->
          <<"Stuart (1,080 MW Coal, AES Ohio)",
            "Killen (600 MW Coal, AES Ohio)",
            "Miami Fort Unit 7 (840 MW Coal)">>]
  @@
    "EKPC" :>
      [retiring_mw |-> 1000, queue_mw |-> 4500, peak_load_mw |-> 3200,
       queue_mix |-> <<<<"Solar", 50>>, <<"Wind_Onshore", 22>>, <<"Storage", 14>>, <<"Gas_CC", 10>>, <<"Other", 4>>>>,
       key_retirements |->
          <<"Cooper (315 MW Coal, EKPC)",
            "Smith (278 MW Coal, EKPC)",
            "Dale (400 MW Coal, EKPC)">>]
  @@
    "ATSI" :>
      [retiring_mw |-> 2800, queue_mw |-> 22000, peak_load_mw |-> 15000,
       queue_mix |-> <<<<"Solar", 50>>, <<"Wind_Onshore", 22>>, <<"Storage", 16>>, <<"Gas_CC", 8>>, <<"Other", 4>>>>,
       key_retirements |->
          <<"W.H. Sammis (2,212 MW Coal, FirstEnergy OH)",
            "Bay Shore (136 MW Coal, FirstEnergy OH - fuel conversion)">>]
  @@
    "PPL" :>
      [retiring_mw |-> 1500, queue_mw |-> 15000, peak_load_mw |-> 9500,
       queue_mix |-> <<<<"Solar", 56>>, <<"Wind_Onshore", 12>>, <<"Storage", 20>>, <<"Gas_CC", 9>>, <<"Other", 3>>>>,
       key_retirements |->
          <<"Brunner Island (1,438 MW Coal, Talen Energy PA)",
            "Martins Creek (partial, 1,680 MW Oil/Gas)">>]
  @@
    "METED" :>
      [retiring_mw |-> 780, queue_mw |-> 6200, peak_load_mw |-> 3100,
       queue_mix |-> <<<<"Solar", 60>>, <<"Wind_Onshore", 10>>, <<"Storage", 18>>, <<"Gas_CC", 8>>, <<"Other", 4>>>>,
       key_retirements |->
          <<"Portland (420 MW Coal)",
            "Titus (155 MW Coal)">>]
  @@
    "COMED" :>
      [retiring_mw |-> 2000, queue_mw |-> 35000, peak_load_mw |-> 26000,
       queue_mix |-> <<<<"Solar", 45>>, <<"Wind_Onshore", 30>>, <<"Storage", 14>>, <<"Gas_CC", 7>>, <<"Other", 4>>>>,
       key_retirements |->
          <<"Will County (1,440 MW Coal - partial retirement)",
            "Waukegan (700 MW Coal)">>]
  @@
    "DAY" :>
      [retiring_mw |-> 900, queue_mw |-> 8000, peak_load_mw |-> 4800,
       queue_mix |-> <<<<"Solar", 55>>, <<"Wind_Onshore", 18>>, <<"Storage", 16>>, <<"Gas_CC", 8>>, <<"Other", 3>>>>,
       key_retirements |->
          <<"F.M. Tait (186 MW Coal, Dayton Power & Light)",
            "Hutchings (150 MW Coal)">>]
  @@
    "DUQ" :>
      [retiring_mw |-> 650, queue_mw |-> 4200, peak_load_mw |-> 3000,
       queue_mix |-> <<<<"Solar", 52>>, <<"Wind_Onshore", 12>>, <<"Storage", 18>>, <<"Gas_CC", 12>>, <<"Other", 6>>>>,
       key_retirements |->
          <<"Cheswick (570 MW Coal, Duquesne Light PA - retired 2022)",
            "Phillips (90 MW Coal)">>]
  @@
    "PECO" :>
      [retiring_mw |-> 400, queue_mw |-> 12000, peak_load_mw |-> 8500,
       queue_mix |-> <<<<"Solar", 60>>, <<"Wind_Offshore", 12>>, <<"Storage", 18>>, <<"Gas_CC", 7>>, <<"Other", 3>>>>,
       key_retirements |->
          <<"Eddystone (partial retirement, 3,520 MW Oil/Gas)">>]
  @@
    "PSEG" :>
      [retiring_mw |-> 300, queue_mw |-> 14000, peak_load_mw |-> 10500,
       queue_mix |-> <<<<"Solar", 48>>, <<"Wind_Offshore", 24>>, <<"Storage", 18>>, <<"Gas_CC", 7>>, <<"Other", 3>>>>,
       key_retirements |->
          <<"Hudson (392 MW Gas - partial)",
            "Kearny (446 MW Gas)">>]
  @@
    "AECO" :>
      [retiring_mw |-> 250, queue_mw |-> 9000, peak_load_mw |-> 5000,
       queue_mix |-> <<<<"Solar", 50>>, <<"Wind_Offshore", 22>>, <<"Storage", 18>>, <<"Gas_CC", 7>>, <<"Other", 3>>>>,
       key_retirements |->
          <<"BL England (430 MW Coal - retired 2019, residual interconnection impacts)",
            "Deepwater (156 MW Oil)">>]
  @@
    "JCPL" :>
      [retiring_mw |-> 180, queue_mw |-> 7500, peak_load_mw |-> 4200,
       queue_mix |-> <<<<"Solar", 53>>, <<"Wind_Offshore", 20>>, <<"Storage", 18>>, <<"Gas_CC", 6>>, <<"Other", 3>>>>,
       key_retirements |->
          <<"Sayreville (235 MW Coal - retired, residual zone impacts)">>]
  @@
    "DPL" :>
      [retiring_mw |-> 350, queue_mw |-> 5500, peak_load_mw |-> 2800,
       queue_mix |-> <<<<"Solar", 62>>, <<"Wind_Offshore", 16>>, <<"Storage", 14>>, <<"Gas_CC", 5>>, <<"Other", 3>>>>,
       key_retirements |->
          <<"Indian River (860 MW Coal - retired 2019, replacement capacity gap persists)">>]
  @@
    "PEPCO" :>
      [retiring_mw |-> 450, queue_mw |-> 6800, peak_load_mw |-> 4500,
       queue_mix |-> <<<<"Solar", 56>>, <<"Wind_Offshore", 14>>, <<"Storage", 22>>, <<"Gas_CC", 6>>, <<"Other", 2>>>>,
       key_retirements |->
          <<"Chalk Point (1,650 MW Oil/Gas - partial retirement, Wheaton MD)">>]
  @@
    "APS" :>
      [retiring_mw |-> 1200, queue_mw |-> 9500, peak_load_mw |-> 6800,
       queue_mix |-> <<<<"Solar", 58>>, <<"Wind_Onshore", 14>>, <<"Storage", 18>>, <<"Gas_CC", 7>>, <<"Other", 3>>>>,
       key_retirements |->
          <<"Armstrong (312 MW Coal, Southwestern PA)",
            "Mitchell (1,560 MW Coal, APS/AEP shared)">>]
  @@
    "RECO" :>
      [retiring_mw |-> 120, queue_mw |-> 3200, peak_load_mw |-> 1200,
       queue_mix |-> <<<<"Solar", 53>>, <<"Wind_Offshore", 22>>, <<"Storage", 18>>, <<"Gas_CC", 5>>, <<"Other", 2>>>>,
       key_retirements |->
          <<"Small peaker retirements (Rockland County NY area)">>]
  @@
    "PJM-RTO" :>
      [retiring_mw |-> 13200, queue_mw |-> 221000, peak_load_mw |-> 155000,
       queue_mix |-> <<<<"Solar", 56>>, <<"Wind_Onshore", 16>>, <<"Wind_Offshore", 5>>, <<"Storage", 14>>, <<"Gas_CC", 5>>, <<"Other", 4>>>>,
       key_retirements |->
          <<"System-wide coal retirement wave - 13.2 GW through 2028",
            "Brandon Shores (1,294 MW), Keystone (1,711 MW), W.H. Sammis (2,212 MW)",
            "Cardinal + Mountaineer + Kammer cluster (2,818 MW, AEP)",
            "Brunner Island (1,438 MW), Stuart + Killen (1,680 MW)">>]

\* _avg_elcc before rounding: sum of frac * ELCC.get(fuel, 0.50)
RECURSIVE WeightedElcc(_)
WeightedElcc(queue_mix) ==
    IF queue_mix = <<>> THEN 0
    ELSE LET fuel == Head(queue_mix)[1]
             frac == Head(queue_mix)[2]
         IN  frac * (IF fuel \in DOMAIN ELCC THEN ELCC[fuel] ELSE 50)
               + WeightedElcc(Tail(queue_mix))

\* round(weighted, 4): the sum of products of two-decimal numbers has four
\* decimals, so rounding gives the sum itself
_avg_elcc(queue_mix) == WeightedElcc(queue_mix)

\* the deficit ratio taken on the signed deficit
_reliability_scoreSigned(retirement_deficit_mw, peak_load_mw, retiring_mw) ==
    LET low    == Min2(3 * (7 * retirement_deficit_mw + 30 * retiring_mw),
                       90 * peak_load_mw)
    IN  {Max2(1, Min2(10, s)) :
            s \in RoundOutcomes(10 * peak_load_mw + low, 10 * peak_load_mw)}

\* _reliability_score(retirement_deficit_mw [0.1 MW], peak_load_mw [MW],
\* retiring_mw [MW]): the scores it can return.
\*   risk_index         = (7 * max(0, deficit) + 30 * retiring) / (100 * peak)
\*   raw                = 1 + 9 * min(risk_index / 0.30, 1)
\*                      = (10 * peak + min(3 * (7 * max(0, deficit)
\*                                             + 30 * retiring), 90 * peak))
\*                        / (10 * peak)
\* raw is computed in binary floating point, so where the exact value lies
\* half-way between two integers round(raw) can give either of them.
_reliability_score(retirement_deficit_mw, peak_load_mw, retiring_mw) ==
    LET deficit == Max2(0, retirement_deficit_mw)
        scaled  == Min2(3 * (7 * deficit + 30 * retiring_mw), 90 * peak_load_mw)
    IN  {Max2(1, Min2(10, s)) :
            s \in RoundOutcomes(10 * peak_load_mw + scaled, 10 * peak_load_mw)}

\* f"{x:,.0f}" of a value in 0.1 MW: the sign and the whole MW shown (the
\* decimal value is rounded half to even; a value in (-0.5, 0) prints "-0")
Format0f(tenths) ==
    [sign |-> IF tenths < 0 THEN "-" ELSE "",
     mw   |-> RoundHalfEven(Abs(tenths), 10)]

\* the template _investment_signal takes for a score
TemplateOf(score) ==
    IF score >= 9 THEN "CRITICAL"
    ELSE IF score >= 7 THEN "HIGH"
    ELSE IF score >= 5 THEN "MODERATE"
    ELSE IF score >= 3 THEN "LOW"
    ELSE "MINIMAL"

\* _investment_signal: the text as its template and the values put into it;
\* <<>> stands for a value the template does not mention
_investment_signal(zone, score, deficit, retiring_mw, key_retirements) ==
    LET lead    == IF key_retirements # <<>> THEN Head(key_retirements)
                   ELSE "major coal retirements"
        surplus == Abs(deficit)
        template == TemplateOf(score)
    IN  CASE template = "CRITICAL" ->
               [template |-> "CRITICAL", zone |-> zone,
                amount |-> Format0f(deficit), amount_is |-> "shortfall",
                retiring |-> <<Format0f(10 * retiring_mw)>>, lead |-> <<lead>>]
          [] template = "HIGH" ->
               [template |-> "HIGH", zone |-> zone,
                amount |-> Format0f(deficit), amount_is |-> "gap",
                retiring |-> <<>>, lead |-> <<lead>>]
          [] template = "MODERATE" ->
               [template |-> "MODERATE", zone |-> zone,
                amount |-> Format0f(deficit), amount_is |-> "residual gap",
                retiring |-> <<Format0f(10 * retiring_mw)>>, lead |-> <<>>]
          [] template = "LOW" ->
               [template |-> "LOW", zone |-> zone,
                amount |-> Format0f(deficit), amount_is |-> "capacity gap",
                retiring |-> <<>>, lead |-> <<lead>>]
          [] OTHER ->
               [template |-> "MINIMAL", zone |-> zone,
                amount |-> Format0f(surplus), amount_is |-> "surplus",
                retiring |-> <<>>, lead |-> <<>>]

\* round(adj_queue * elcc, 1) in 0.1 MW, adj_queue in 0.1 MW (>= 0) and elcc
\* in 1e-4.  The product is taken in two parts to stay within the integers of
\* the model checker.
ScaleByElcc(adj_queue, elcc) ==
    {(adj_queue \div 10000) * elcc + part :
        part \in RoundOutcomes((adj_queue % 10000) * elcc, 10000)}

\* ResourceGapClient.__init__: the check on queue_success_rate
RateValid(queue_success_rate) ==
    0 < queue_success_rate /\ queue_success_rate <= 1000

\* _compute_zone(zone, p) with self.success_rate = rate: the results it can
\* give (a product that lies half-way between two tenths can round either way)
_compute_zone(rate, zone, p) ==
    LET elcc == _avg_elcc(p.queue_mix)
    IN  UNION { UNION {
          {[zone                  |-> zone,
            retiring_mw           |-> p.retiring_mw,
            total_queue_mw        |-> p.queue_mw,
            adjusted_queue_mw     |-> adj_queue,
            avg_elcc              |-> elcc,
            elcc_adjusted_mw      |-> elcc_adj,
            retirement_deficit_mw |-> 10 * p.retiring_mw - elcc_adj,
            reliability_score     |-> score,
            investment_signal     |->
                _investment_signal(zone, score, 10 * p.retiring_mw - elcc_adj,
                                   p.retiring_mw, p.key_retirements),
            key_retirements       |-> p.key_retirements,
            queue_success_rate    |-> rate]
             : score \in _reliability_score(10 * p.retiring_mw - elcc_adj,
                                            p.peak_load_mw, p.retiring_mw)}
          : elcc_adj \in ScaleByElcc(adj_queue, elcc)}
          : adj_queue \in RoundOutcomes(p.queue_mw * rate, 100)}

\* results.sort(key=reliability_score, reverse=True): a stable sort, so zones
\* of one score keep their order
RECURSIVE SortByScore(_, _)
SortByScore(rows, score) ==
    IF score < 1 THEN <<>>
    ELSE LET HasScore(r) == r.reliability_score = score
         IN  SelectSeq(rows, HasScore) \o SortByScore(rows, score - 1)

\* [self._compute_zone(z, _ZONE_PROFILES[z]) for z in zones]: the lists the
\* comprehension can give
RECURSIVE ComputeZones(_, _)
ComputeZones(rate, zones) ==
    IF zones = <<>> THEN {<<>>}
    ELSE {<<first>> \o rest :
            first \in _compute_zone(rate, Head(zones),
                                    _ZONE_PROFILES[Head(zones)]),
            rest  \in ComputeZones(rate, Tail(zones))}

\* ResourceGapClient.get_resource_gap(zone) for a client built with the
\* default zones: the lists it can return.  "" stands for no zone filter
\* (None and "" both fail `if zone:`).
get_resource_gap(rate, zone) ==
    LET z_upper == Upper(zone)
        IsZone(z) == z = z_upper
        zones   == IF zone # "" THEN SelectSeq(ZoneKeys, IsZone) ELSE ZoneKeys
        InTable(z) == z \in DOMAIN _ZONE_PROFILES
        known   == SelectSeq(zones, InTable)
    IN  IF zone # "" /\ zones = <<>> THEN {<<>>}
        ELSE {SortByScore(rows, 10) : rows \in ComputeZones(rate, known)}

RECURSIVE SumScores(_)
SumScores(rows) ==
    IF rows = <<>> THEN 0
    ELSE Head(rows).reliability_score + SumScores(Tail(rows))

RECURSIVE SumPositiveDeficits(_)
SumPositiveDeficits(rows) ==
    IF rows = <<>> THEN 0
    ELSE Max2(0, Head(rows).retirement_deficit_mw)
           + SumPositiveDeficits(Tail(rows))

\* the summary block of the /api/resource-gap response
ResourceGapSummary(records, queue_success_rate) ==
    LET IsCritical(r) == r.reliability_score >= 7
        IsRto(r)      == r.zone = "PJM-RTO"
        rto           == SelectSeq(records, IsRto)
    IN  [total_zones        |-> Len(records),
         critical_zones     |-> Len(SelectSeq(records, IsCritical)),
         total_deficit_mw   |-> SumPositiveDeficits(records),
         queue_success_rate |-> queue_success_rate,
         most_at_risk_zone  |-> IF records # <<>> THEN records[1].zone ELSE "N/A",
         system_reliability_score |->
             IF rto # <<>> THEN rto[1].reliability_score
             ELSE IF records # <<>>
                  THEN RoundHalfEven(SumScores(records), Len(records))
             ELSE 1]

-----------------------------------------------------------------------------
(* Inputs of the resource-gap specification *)

\* deficits in 0.1 MW
DeficitInputs == {-20000, -5, 0, 5, 5000, 17589, 33400, 33430, 60000}

PeakInputs == {1800, 7800}

RetiringInputs == {0, 100, 1000, 1800, 1816}

\* deficits handed to _investment_signal, in 0.1 MW
SignalDeficitInputs == {-1044, -4, 0, 5, 15, 11477}

RetirementListInputs == {<<>>, _ZONE_PROFILES["AEP"].key_retirements}

\* zone filters of a request; "" is the omitted parameter
GapZoneInputs == {"", "BGE", "bge", "Dpl", "OVEC", "XYZ"}

\* queue_success_rate of a request, in 0.001
RateInputs == {0, QUEUE_SUCCESS_RATE, 500, 1000, 1001}

-----------------------------------------------------------------------------
(* Actions of the resource-gap specification *)

\* _reliability_score called for two deficits with the other arguments equal.
\* The code is a function of max(0, deficit), so two calls whose clamped
\* deficits are equal return the same score.
reliability_score_call ==
    /\ gap_pc = "request"
    /\ gap_pc' = "returned"
    /\ \E d1 \in DeficitInputs, d2 \in DeficitInputs,
          peak \in PeakInputs, retiring \in RetiringInputs :
          /\ d1 <= d2
          /\ gap_request' = <<"_reliability_score", d1, d2, peak, retiring>>
          /\ \E s1 \in _reliability_score(d1, peak, retiring) :
                \E s2 \in IF Max2(0, d1) = Max2(0, d2) THEN {s1}
                          ELSE _reliability_score(d2, peak, retiring) :
                   gap_response' = <<s1, s2>>
    /\ UNCHANGED gapOthers

\* _investment_signal called on its own
investment_signal_call ==
    /\ gap_pc = "request"
    /\ gap_pc' = "returned"
    /\ \E zone \in {"BGE"}, score \in 1..10, deficit \in SignalDeficitInputs,
          retiring \in {1816}, key_retirements \in RetirementListInputs :
          /\ gap_request' = <<"_investment_signal", zone, score, deficit,
                              retiring, key_retirements>>
          /\ gap_response' = <<_investment_signal(zone, score, deficit,
                                                  retiring, key_retirements)>>
    /\ UNCHANGED gapOthers

\* GET /api/resource-gap: the query validation (gt=0, le=1), the client, the
\* 404 for an explicit zone with no result, the records and the summary
api_get_resource_gap ==
    /\ gap_pc = "request"
    /\ gap_pc' = "returned"
    /\ \E zone \in GapZoneInputs, queue_success_rate \in RateInputs :
          /\ gap_request' = <<"GET /api/resource-gap", zone, queue_success_rate>>
          /\ IF ~(queue_success_rate > 0 /\ queue_success_rate <= 1000)
             THEN gap_response' = [status |-> 422, data |-> <<>>]
             ELSE IF ~RateValid(queue_success_rate)
             THEN gap_response' = [status |-> 500, data |-> <<>>]
             ELSE \E found \in get_resource_gap(queue_success_rate, zone) :
                    IF found = <<>> /\ zone # ""
                    THEN gap_response' = [status |-> 404, data |-> <<>>]
                    ELSE gap_response' =
                           [status  |-> 200,
                            data    |-> found,
                            summary |-> ResourceGapSummary(found,
                                                           queue_success_rate)]
    /\ UNCHANGED gapOthers

InitGap == AllIdle

NextGap ==
    \/ reliability_score_call
    \/ investment_signal_call
    \/ api_get_resource_gap

SpecGap == InitGap /\ [][NextGap]_vars

-----------------------------------------------------------------------------
(* MarginalFuelClient *)
(*   A weight counts 0.01: a base weight (one decimal) times a zone bias    *)
(*   (one decimal).  The generator is random.Random(seed), the Mersenne     *)
(*   Twister; of its output the model keeps, for the seeds of the zones and *)
(*   dates served, the leading 18 bits of each of the first 24 calls of     *)
(*   random() and the leading 6 bits of each of the 32-bit words that       *)
(*   follow, which is what rng.choices and rng.randint read of them here.   *)

\* random() lies in [q / RandomScale, (q + 1) / RandomScale) for the integer
\* q kept of it
RandomScale == 262144

\* int(hashlib.md5(f"{zone}|{date_str}".encode()).hexdigest(), 16) % 2**32,
\* in decimal, for the zones and dates served
md5_seed ==
    ("BGE|2025-01-01" :> "2059285168")
    @@ ("DPL|2025-01-01" :> "1840473276")
    @@ ("BGE|2025-01-06" :> "2732466195")
    @@ ("DPL|2025-01-06" :> "3889614560")
    @@ ("BGE|2025-01-15" :> "1742723477")
    @@ ("DPL|2025-01-15" :> "3299766841")
    @@ ("BGE|2025-06-10" :> "869563227")
    @@ ("DPL|2025-06-10" :> "532297348")
    @@ ("AECO|2026-10-30" :> "3351875300")
    @@ ("AEP|2026-10-30" :> "2532189137")
    @@ ("APS|2026-10-30" :> "1915096579")
    @@ ("ATSI|2026-10-30" :> "879519079")
    @@ ("BGE|2026-10-30" :> "1033770893")
    @@ ("COMED|2026-10-30" :> "355442680")
    @@ ("DAY|2026-10-30" :> "3606106666")
    @@ ("DEOK|2026-10-30" :> "2812963584")
    @@ ("DOM|2026-10-30" :> "143260870")
    @@ ("DPL|2026-10-30" :> "913603387")
    @@ ("DUQ|2026-10-30" :> "1488426950")
    @@ ("EKPC|2026-10-30" :> "3552517295")
    @@ ("JCPL|2026-10-30" :> "260887307")
    @@ ("METED|2026-10-30" :> "3800607551")
    @@ ("OVEC|2026-10-30" :> "514129641")
    @@ ("PECO|2026-10-30" :> "3535418576")
    @@ ("PENELEC|2026-10-30" :> "787019240")
    @@ ("PEPCO|2026-10-30" :> "164734984")
    @@ ("PJM-RTO|2026-10-30" :> "2097112384")
    @@ ("PPL|2026-10-30" :> "1893650702")
    @@ ("PSEG|2026-10-30" :> "3052427939")
    @@ ("RECO|2026-10-30" :> "3181938723")
    @@ ("BGE|2026-10-31" :> "3865949744")
    @@ ("DPL|2026-10-31" :> "3173246374")

MersenneTwister ==
    ("2059285168" :>
        [random |-> <<64585, 167203, 120069, 43006, 36177, 251381, 76697, 110875,
                     170283, 206758, 247339, 37713, 207160, 65455, 253094,
                     12680, 157922, 48710, 211093, 5770, 48735, 164025, 162652,
                     45268>>,
         words  |-> <<57, 56, 37, 14, 13, 6, 30, 37>>])
    @@ ("1840473276" :>
        [random |-> <<192310, 257532, 252956, 50832, 239135, 254204, 30679,
                     79659, 77926, 250105, 187306, 134071, 127113, 257547,
                     13788, 84725, 188279, 162508, 134981, 118950, 229531,
                     222762, 216072, 3800>>,
         words  |-> <<27, 26, 16, 47, 7, 48, 16, 24>>])
    @@ ("2732466195" :>
        [random |-> <<228479, 191443, 231377, 159787, 235509, 42484, 207411,
                     61070, 190654, 91377, 119385, 192465, 1758, 92852, 173338,
                     252991, 136411, 62212, 155869, 149136, 139898, 141949,
                     181435, 62152>>,
         words  |-> <<37, 17, 22, 3, 13, 44, 6, 51>>])
    @@ ("3889614560" :>
        [random |-> <<178925, 125147, 208136, 54785, 161571, 28248, 260045,
                     14647, 249581, 160446, 203110, 116097, 118631, 118788,
                     4917, 13325, 101083, 58273, 172519, 152056, 8906, 135920,
                     60753, 40584>>,
         words  |-> <<60, 51, 37, 51, 39, 6, 51, 4>>])
    @@ ("1742723477" :>
        [random |-> <<246998, 147783, 37547, 122303, 75785, 57784, 161800,
                     254470, 148639, 256801, 190581, 5180, 892, 3100, 135171,
                     87613, 133085, 76981, 18318, 22297, 14133, 235936, 15109,
                     30195>>,
         words  |-> <<18, 31, 50, 32, 51, 62, 7, 21>>])
    @@ ("3299766841" :>
        [random |-> <<204946, 236550, 227315, 144103, 67970, 100750, 38237,
                     143783, 202245, 175964, 194355, 144849, 110593, 29677,
                     155391, 32403, 205962, 46809, 140485, 5251, 35947, 243672,
                     238203, 11853>>,
         words  |-> <<38, 43, 13, 27, 12, 27, 2, 37>>])
    @@ ("869563227" :>
        [random |-> <<9476, 4714, 11516, 229126, 93166, 91190, 108554, 215150,
                     164530, 119089, 23330, 79285, 24108, 38200, 113639, 88526,
                     105019, 249886, 259291, 176960, 149963, 47859, 46831,
                     110523>>,
         words  |-> <<13, 48, 42, 0, 45, 1, 27, 32>>])
    @@ ("532297348" :>
        [random |-> <<211609, 32320, 8197, 175112, 188575, 27491, 117586, 255552,
                     41427, 41387, 52636, 151149, 228399, 165923, 137271,
                     197798, 187666, 157563, 28015, 258843, 53508, 112666,
                     54997, 222025>>,
         words  |-> <<58, 15, 61, 10, 23, 20, 37, 7>>])
    @@ ("3351875300" :>
        [random |-> <<111758, 245759, 62653, 162774, 116841, 37050, 258409,
                     248544, 125, 251753, 76539, 195942, 205542, 83954, 92808,
                     116356, 157911, 206710, 204282, 250739, 252629, 85859,
                     76987, 95757>>,
         words  |-> <<12, 46, 9, 45, 50, 45, 49, 58>>])
    @@ ("2532189137" :>
        [random |-> <<48424, 224369, 79437, 87337, 82733, 51586, 257539, 231995,
                     29235, 88570, 114992, 198269, 19637, 10871, 187607, 227690,
                     198628, 190142, 159225, 208788, 167221, 51367, 217368,
                     167212>>,
         words  |-> <<45, 61, 7, 41, 40, 30, 42, 29>>])
    @@ ("1915096579" :>
        [random |-> <<193931, 127189, 173557, 144497, 49997, 104532, 130160,
                     71622, 161888, 115096, 90791, 181927, 230506, 104971,
                     64045, 135155, 38421, 8393, 117712, 106530, 97330, 162583,
                     102032, 254593>>,
         words  |-> <<61, 26, 2, 33, 6, 14, 10, 9>>])
    @@ ("879519079" :>
        [random |-> <<40825, 202868, 243681, 216591, 184752, 2205, 208147,
                     210114, 258169, 27996, 196044, 128181, 188215, 184572,
                     4585, 131265, 222982, 150060, 208790, 128262, 119635,
                     114388, 248259, 230373>>,
         words  |-> <<39, 63, 52, 5, 35, 22, 16, 2>>])
    @@ ("1033770893" :>
        [random |-> <<229904, 9495, 26746, 13730, 65455, 180340, 24444, 156082,
                     44593, 20318, 150285, 186967, 3400, 73668, 29801, 72380,
                     147585, 122977, 159903, 200049, 44244, 97361, 154393,
                     251371>>,
         words  |-> <<54, 35, 13, 51, 25, 40, 10, 38>>])
    @@ ("355442680" :>
        [random |-> <<22091, 252339, 64021, 136896, 2491, 99879, 116468, 101935,
                     62544, 258848, 167918, 258687, 201445, 190181, 91241,
                     16745, 55603, 146995, 243872, 53339, 246743, 170529, 4729,
                     261659>>,
         words  |-> <<7, 54, 53, 2, 24, 5, 29, 8>>])
    @@ ("3606106666" :>
        [random |-> <<4663, 115776, 149932, 33610, 39061, 37877, 67793, 79271,
                     195132, 34755, 244473, 176828, 78620, 192539, 107389,
                     247088, 142982, 219527, 161590, 132152, 179385, 84110,
                     22632, 44766>>,
         words  |-> <<10, 31, 56, 42, 36, 24, 35, 53>>])
    @@ ("2812963584" :>
        [random |-> <<55008, 39943, 43436, 81661, 150005, 250601, 3349, 128414,
                     218108, 79147, 181506, 177436, 76208, 158189, 69341,
                     118301, 49871, 143150, 24537, 98019, 126310, 162910,
                     218130, 41187>>,
         words  |-> <<17, 37, 13, 24, 30, 27, 25, 12>>])
    @@ ("143260870" :>
        [random |-> <<24765, 254248, 132300, 34258, 130350, 142643, 150729,
                     200104, 120196, 201981, 81851, 238610, 128331, 35450,
                     50449, 148887, 93884, 243914, 5459, 40237, 116747, 194761,
                     135052, 8010>>,
         words  |-> <<23, 58, 34, 6, 30, 5, 15, 55>>])
    @@ ("913603387" :>
        [random |-> <<31783, 42854, 122463, 118773, 87090, 67455, 76433, 169736,
                     181245, 138410, 155439, 11349, 91696, 253940, 161716,
                     256323, 106390, 1526, 180575, 160194, 246786, 167091,
                     62247, 40327>>,
         words  |-> <<62, 61, 48, 51, 44, 16, 16, 52>>])
    @@ ("1488426950" :>
        [random |-> <<78723, 190832, 165944, 72760, 203280, 62950, 97412, 55809,
                     49008, 158446, 236084, 23995, 92612, 198601, 139206,
                     133167, 261798, 88149, 169430, 90695, 199464, 251859,
                     176542, 55172>>,
         words  |-> <<62, 16, 18, 32, 15, 53, 24, 0>>])
    @@ ("3552517295" :>
        [random |-> <<68312, 166818, 259163, 57734, 217601, 165174, 241521,
                     177371, 181748, 45047, 85537, 93655, 59977, 213310, 128784,
                     220464, 214278, 211268, 197227, 203301, 80974, 152607,
                     22880, 132074>>,
         words  |-> <<7, 43, 42, 41, 14, 38, 62, 33>>])
    @@ ("260887307" :>
        [random |-> <<82934, 64976, 144077, 59563, 14491, 102815, 89383, 41416,
                     8423, 66672, 205925, 6303, 188877, 179916, 212001, 50374,
                     59395, 219868, 102181, 142104, 58634, 10869, 234667,
                     119631>>,
         words  |-> <<14, 23, 22, 28, 9, 57, 8, 17>>])
    @@ ("3800607551" :>
        [random |-> <<258326, 40605, 258412, 23479, 245963, 223215, 43984, 35367,
                     353, 116126, 233480, 70021, 805, 75855, 84696, 149165,
                     45336, 187097, 27995, 187457, 131900, 209955, 3740, 228750>>,
         words  |-> <<21, 54, 0, 57, 55, 24, 22, 21>>])
    @@ ("514129641" :>
        [random |-> <<132953, 65994, 164265, 32086, 164939, 132152, 101492,
                     138246, 134975, 10496, 227731, 129118, 752, 181246, 160518,
                     199822, 246729, 216226, 94592, 107841, 206244, 189021,
                     134505, 15598>>,
         words  |-> <<17, 30, 24, 46, 18, 55, 14, 10>>])
    @@ ("3535418576" :>
        [random |-> <<125870, 40711, 5058, 257041, 156585, 125303, 192256, 13665,
                     31542, 13305, 247699, 148359, 980, 245154, 205267, 163257,
                     131991, 114885, 110360, 112414, 168170, 219105, 180386,
                     168009>>,
         words  |-> <<51, 16, 12, 26, 63, 30, 37, 39>>])
    @@ ("787019240" :>
        [random |-> <<19059, 19160, 189231, 257314, 155447, 84013, 37302, 31927,
                     207740, 185192, 36274, 177956, 253778, 250722, 112608,
                     187486, 25175, 171919, 132771, 234351, 128508, 240254,
                     49519, 135639>>,
         words  |-> <<25, 35, 58, 33, 42, 31, 32, 32>>])
    @@ ("164734984" :>
        [random |-> <<52316, 203610, 218493, 76870, 176096, 145980, 57145,
                     211743, 4748, 102433, 246286, 149196, 240227, 186069,
                     224632, 15598, 96803, 48271, 89416, 129722, 172967, 50689,
                     154479, 55524>>,
         words  |-> <<8, 20, 24, 11, 33, 33, 56, 17>>])
    @@ ("2097112384" :>
        [random |-> <<101985, 94071, 125874, 55354, 119456, 116164, 111060,
                     37852, 73816, 72675, 243528, 247552, 80820, 171526, 229040,
                     19803, 153882, 147507, 241502, 188893, 46745, 132831,
                     174111, 195906>>,
         words  |-> <<10, 38, 46, 38, 42, 12, 19, 1>>])
    @@ ("1893650702" :>
        [random |-> <<117479, 74123, 131693, 148751, 118964, 85281, 166443,
                     84719, 152469, 198830, 29187, 111454, 222720, 172319,
                     232911, 243599, 94434, 232258, 127570, 69217, 228233,
                     121947, 41598, 145949>>,
         words  |-> <<34, 30, 24, 0, 4, 49, 30, 2>>])
    @@ ("3052427939" :>
        [random |-> <<73743, 154664, 40149, 182410, 188992, 38610, 945, 60291,
                     95976, 46709, 49715, 138588, 131696, 155768, 240584,
                     136433, 12044, 244544, 176328, 21513, 136707, 79929,
                     191173, 213344>>,
         words  |-> <<37, 36, 22, 5, 0, 55, 2, 43>>])
    @@ ("3181938723" :>
        [random |-> <<168885, 186161, 136895, 16237, 125262, 66485, 167951,
                     115778, 194851, 69125, 196561, 11177, 111652, 187928,
                     122287, 102030, 193649, 197155, 2172, 10927, 140673,
                     200435, 165297, 73758>>,
         words  |-> <<11, 53, 9, 20, 32, 21, 12, 12>>])
    @@ ("3865949744" :>
        [random |-> <<88293, 233025, 145085, 159958, 168416, 73263, 141224,
                     138012, 92280, 44839, 185805, 207721, 108999, 52167,
                     176418, 85889, 195871, 113441, 135724, 245022, 194742,
                     185276, 205890, 145575>>,
         words  |-> <<49, 0, 56, 24, 30, 61, 4, 42>>])
    @@ ("3173246374" :>
        [random |-> <<256117, 149602, 245812, 220052, 79969, 143404, 147371,
                     123377, 172038, 180814, 35482, 128516, 160604, 49907, 6931,
                     252768, 241714, 134377, 88335, 16045, 142090, 14711,
                     233365, 6330>>,
         words  |-> <<44, 7, 16, 47, 49, 40, 4, 39>>])

ALL_ZONES ==
    <<"AECO", "AEP", "APS", "ATSI", "BGE", "COMED", "DAY", "DEOK", "DOM",
      "DPL", "DUQ", "EKPC", "JCPL", "METED", "OVEC", "PECO", "PENELEC",
      "PEPCO", "PJM-RTO", "PPL", "PSEG", "RECO">>

FOSSIL_FUELS == {"Gas-CC", "Gas-CT", "Coal", "Oil"}

_SIGNAL_RANGES ==
    ("Nuclear" :> <<82, 95>>)
    @@ ("Coal" :> <<68, 85>>)
    @@ ("Gas-CC" :> <<58, 80>>)
    @@ ("Hydro" :> <<55, 75>>)
    @@ ("Gas-CT" :> <<38, 65>>)
    @@ ("Wind" :> <<28, 60>>)
    @@ ("Solar" :> <<22, 55>>)

\* the multipliers of a zone, in tenths
_ZONE_BIAS ==
    ("COMED" :> <<<<"Wind", 28>>, <<"Nuclear", 16>>, <<"Coal", 6>>>>)
    @@ ("ATSI" :> <<<<"Wind", 16>>, <<"Gas-CC", 12>>>>)
    @@ ("DAY" :> <<<<"Coal", 16>>, <<"Wind", 14>>>>)
    @@ ("AEP" :> <<<<"Coal", 21>>, <<"Gas-CT", 6>>>>)
    @@ ("DOM" :> <<<<"Coal", 19>>, <<"Gas-CC", 12>>>>)
    @@ ("EKPC" :> <<<<"Coal", 23>>, <<"Gas-CT", 5>>>>)
    @@ ("OVEC" :> <<<<"Coal", 21>>>>)
    @@ ("DEOK" :> <<<<"Coal", 16>>>>)
    @@ ("METED" :> <<<<"Coal", 15>>, <<"Gas-CC", 11>>>>)
    @@ ("PENELEC" :> <<<<"Coal", 16>>, <<"Hydro", 14>>>>)
    @@ ("PSEG" :> <<<<"Gas-CC", 19>>, <<"Coal", 4>>>>)
    @@ ("RECO" :> <<<<"Gas-CC", 20>>, <<"Wind", 15>>>>)
    @@ ("AECO" :> <<<<"Gas-CC", 18>>, <<"Wind", 13>>>>)
    @@ ("JCPL" :> <<<<"Gas-CC", 17>>, <<"Nuclear", 13>>>>)
    @@ ("DPL" :> <<<<"Gas-CC", 15>>, <<"Solar", 14>>>>)
    @@ ("BGE" :> <<<<"Gas-CC", 15>>, <<"Nuclear", 14>>>>)
    @@ ("PEPCO" :> <<<<"Gas-CC", 16>>, <<"Nuclear", 13>>>>)
    @@ ("PECO" :> <<<<"Gas-CC", 15>>, <<"Nuclear", 14>>>>)
    @@ ("PPL" :> <<<<"Gas-CC", 13>>, <<"Coal", 12>>>>)
    @@ ("APS" :> <<<<"Gas-CC", 13>>, <<"Coal", 11>>>>)
    @@ ("DUQ" :> <<<<"Gas-CC", 12>>, <<"Hydro", 15>>>>)
    @@ ("PJM-RTO" :> <<<<"Gas-CC", 15>>, <<"Wind", 12>>>>)

\* random.Random(seed): the generator, by what it puts out
Random(seed) ==
    [seed   |-> seed,
     random |-> MersenneTwister[seed].random,
     words  |-> MersenneTwister[seed].words]

\* _make_rng(zone, date_str): the generator seeded with the hash of
\* "zone|date_str"
_make_rng(zone, date_str) == Random(md5_seed[zone \o "|" \o date_str])

\* the i-th call (i = 0, ..., 23) of rng.random(), times RandomScale and
\* rounded down
Draw(rng, i) == rng.random[i + 1]

\* n.bit_length() for n in 1..63
bit_length(n) ==
    IF n < 2 THEN 1
    ELSE IF n < 4 THEN 2
    ELSE IF n < 8 THEN 3
    ELSE IF n < 16 THEN 4
    ELSE IF n < 32 THEN 5
    ELSE 6

\* rng.getrandbits(k), k <= 6, on the j-th word after the 24 calls of
\* random(): the leading k bits of the word
getrandbits(rng, j, k) == rng.words[j] \div 2^(6 - k)

\* rng._randbelow(n): getrandbits(n.bit_length()) again and again until the
\* value is below n
_randbelow(rng, n) ==
    LET k == bit_length(n)
        j == CHOOSE w \in DOMAIN rng.words :
                /\ getrandbits(rng, w, k) < n
                /\ \A v \in 1..(w - 1) : getrandbits(rng, v, k) >= n
    IN  getrandbits(rng, j, k)

\* rng.randint(a, b) of a generator that has made its 24 calls of random()
randint(rng, a, b) == a + _randbelow(rng, b - a + 1)

\* _base_hour_weights(hour): <<fuel, weight in tenths>> in the order of the
\* dict, which is the order rng.choices sees
_base_hour_weights(hour) ==
    IF hour <= 5 THEN
        <<<<"Nuclear", 30>>, <<"Coal", 25>>, <<"Wind", 22>>, <<"Gas-CC", 15>>,
          <<"Hydro", 10>>, <<"Gas-CT", 2>>, <<"Solar", 0>>>>
    ELSE IF hour <= 8 THEN
        <<<<"Gas-CC", 30>>, <<"Coal", 20>>, <<"Nuclear", 15>>, <<"Wind", 10>>,
          <<"Hydro", 8>>, <<"Gas-CT", 6>>, <<"Solar", 3>>>>
    ELSE IF hour <= 11 THEN
        <<<<"Gas-CC", 35>>, <<"Coal", 15>>, <<"Solar", 15>>, <<"Wind", 10>>,
          <<"Hydro", 7>>, <<"Nuclear", 8>>, <<"Gas-CT", 5>>>>
    ELSE IF hour <= 15 THEN
        <<<<"Gas-CC", 25>>, <<"Solar", 22>>, <<"Coal", 15>>, <<"Wind", 10>>,
          <<"Hydro", 8>>, <<"Nuclear", 5>>, <<"Gas-CT", 7>>>>
    ELSE IF hour <= 19 THEN
        <<<<"Gas-CC", 35>>, <<"Gas-CT", 22>>, <<"Coal", 15>>, <<"Wind", 8>>,
          <<"Hydro", 7>>, <<"Nuclear", 5>>, <<"Solar", 3>>>>
    ELSE IF hour <= 21 THEN
        <<<<"Gas-CC", 30>>, <<"Coal", 20>>, <<"Wind", 18>>, <<"Gas-CT", 10>>,
          <<"Nuclear", 10>>, <<"Hydro", 8>>, <<"Solar", 0>>>>
    ELSE
        <<<<"Gas-CC", 25>>, <<"Coal", 25>>, <<"Nuclear", 20>>, <<"Wind", 18>>,
          <<"Hydro", 10>>, <<"Gas-CT", 3>>, <<"Solar", 0>>>>

_period_label(hour) ==
    IF hour <= 5 THEN "offpeak"
    ELSE IF hour <= 9 THEN "morning"
    ELSE IF hour <= 15 THEN "midday"
    ELSE IF hour <= 19 THEN "peak"
    ELSE IF hour <= 21 THEN "evening"
    ELSE "offpeak"

\* the multiplier (tenths) the bias of a zone has for a fuel, 10 for none
Multiplier(bias, fuel) ==
    IF \E i \in DOMAIN bias : bias[i][1] = fuel
    THEN bias[CHOOSE i \in DOMAIN bias : bias[i][1] = fuel][2]
    ELSE 10

\* weights[fuel] *= mult for the fuels of the zone's bias; weights in 0.01
ApplyBias(weights, bias) ==
    [i \in DOMAIN weights |->
        <<weights[i][1], weights[i][2] * Multiplier(bias, weights[i][1])>>]

\* solar left as the bias gave it
SuppressSolarNever(weights, hour) == weights

\* if hour < 7 or hour >= 20: weights["Solar"] = 0.0
SuppressSolar(weights, hour) ==
    IF hour < 7 \/ hour >= 20
    THEN [i \in DOMAIN weights |->
            IF weights[i][1] = "Solar" THEN <<"Solar", 0>> ELSE weights[i]]
    ELSE weights

\* no boost for the previous fuel
PersistNever(weights, prev_fuel) == weights

\* if prev_fuel and prev_fuel in weights and weights[prev_fuel] > 0:
\*     weights[prev_fuel] *= 2.0          ("" stands for None)
Persist(weights, prev_fuel) ==
    [i \in DOMAIN weights |->
        IF prev_fuel # "" /\ weights[i][1] = prev_fuel /\ weights[i][2] > 0
        THEN <<weights[i][1], 2 * weights[i][2]>>
        ELSE weights[i]]

RECURSIVE SumWeights(_)
SumWeights(weights) ==
    IF weights = <<>> THEN 0
    ELSE Head(weights)[2] + SumWeights(Tail(weights))

\* rng.choices(fuels, weights=wts, k=1)[0] when random() gives
\* draw / RandomScale: the first fuel whose cumulative weight exceeds
\* random() * total
choices(weights, draw) ==
    LET total == SumWeights(weights)
        Cum(i) == SumWeights(SubSeq(weights, 1, i))
        first == CHOOSE i \in DOMAIN weights :
                    /\ Cum(i) * RandomScale > draw * total
                    /\ \A j \in 1..(i - 1) :
                          Cum(j) * RandomScale <= draw * total
    IN  weights[first][1]

\* the body of the loop of _generate_timeline from `hour` on: for each hour
\* the entry and the weights the draw was made with
RECURSIVE TimelineFrom(_, _, _, _)
TimelineFrom(zone, rng, hour, prev_fuel) ==
    IF hour >= 24 THEN <<>>
    ELSE LET bias == IF zone \in DOMAIN _ZONE_BIAS THEN _ZONE_BIAS[zone]
                     ELSE <<>>
         IN  CHOOSE entries \in
               UNION {
                 {<<[hour |-> hour, fuel_type |-> chosen, weights |-> weights]>>
                    \o TimelineFrom(zone, rng, hour + 1, chosen) :
                      chosen \in {choices(weights, Draw(rng, hour))}} :
                 weights \in
                   {Persist(SuppressSolar(
                              ApplyBias(_base_hour_weights(hour), bias), hour),
                            prev_fuel)}} : TRUE

\* _generate_timeline(zone, rng): calls 0..23 of rng.random()
_generate_timeline(zone, rng) == TimelineFrom(zone, rng, 0, "")

\* the backward scan wrapping round to hour 23
BackwardRunWrapped(current_fuel, timeline, current_hour) ==
    LET Same(k) == timeline[((current_hour - k + 24) % 24) + 1].fuel_type
                     = current_fuel
    IN  IF ~Same(1) THEN 0
        ELSE IF ~Same(2) THEN 1
        ELSE IF ~Same(3) THEN 2
        ELSE 3

\* for i in range(current_hour - 1, max(-1, current_hour - 4), -1): the
\* number of hours counted before the break (timeline[h + 1] is hour h)
BackwardRun(current_fuel, timeline, current_hour) ==
    LET Same(k) == /\ current_hour - k > Max2(-1, current_hour - 4)
                   /\ timeline[current_hour - k + 1].fuel_type = current_fuel
    IN  IF ~Same(1) THEN 0
        ELSE IF ~Same(2) THEN 1
        ELSE IF ~Same(3) THEN 2
        ELSE 3

\* for i in range(current_hour + 1, min(24, current_hour + 4))
ForwardRun(current_fuel, timeline, current_hour) ==
    LET Same(k) == /\ current_hour + k < Min2(24, current_hour + 4)
                   /\ timeline[current_hour + k + 1].fuel_type = current_fuel
    IN  IF ~Same(1) THEN 0
        ELSE IF ~Same(2) THEN 1
        ELSE IF ~Same(3) THEN 2
        ELSE 3

\* _compute_signal(current_fuel, timeline, current_hour, rng), rng having
\* made its 24 calls of random(): the locals and the value returned
_compute_signal(current_fuel, timeline, current_hour, rng) ==
    LET range == IF current_fuel \in DOMAIN _SIGNAL_RANGES
                 THEN _SIGNAL_RANGES[current_fuel] ELSE <<40, 70>>
        base_min == range[1]
        base_max == range[2]
        consecutive == 1 + BackwardRun(current_fuel, timeline, current_hour)
                         + ForwardRun(current_fuel, timeline, current_hour)
        stability_bonus == Min2(consecutive * 3, 15)
        base == randint(rng, base_min, base_max)
        raw == base + stability_bonus
    IN  [base |-> base, consecutive |-> consecutive,
         stability_bonus |-> stability_bonus, signal |-> Min2(100, raw)]

\* the timeline as the list of TimelineEntry
Entries(drawn) ==
    [i \in DOMAIN drawn |->
        [hour |-> drawn[i].hour, fuel_type |-> drawn[i].fuel_type]]

\* the result of one pass of the loop of get_marginal_fuel and the locals of
\* its computation.  The market note is named by the key of its sentence in
\* _MARKET_NOTES, which has a sentence for every fuel and period.
ZoneResultOf(z, cur_hour, drawn, timeline, computed) ==
    [result |->
        [zone            |-> z,
         current_fuel    |-> timeline[cur_hour + 1].fuel_type,
         is_fossil       |-> timeline[cur_hour + 1].fuel_type \in FOSSIL_FUELS,
         signal_strength |-> computed.signal,
         market_note     |-> <<timeline[cur_hour + 1].fuel_type,
                               _period_label(cur_hour)>>,
         timeline_24h    |-> timeline],
     locals |->
        [zone            |-> z,
         weights         |-> [i \in DOMAIN drawn |-> drawn[i].weights],
         base            |-> computed.base,
         consecutive     |-> computed.consecutive,
         stability_bonus |-> computed.stability_bonus]]

\* one pass of the loop of get_marginal_fuel for zone z: the generator, the
\* timeline, the current fuel and the signal
ZoneResult(z, date_str, cur_hour) ==
    CHOOSE pass \in
      UNION { UNION { UNION {
        {ZoneResultOf(z, cur_hour, drawn, timeline, computed) :
           computed \in {_compute_signal(timeline[cur_hour + 1].fuel_type,
                                         timeline, cur_hour, rng)}} :
           timeline \in {Entries(drawn)}} :
           drawn \in {_generate_timeline(z, rng)}} :
           rng \in {_make_rng(z, date_str)}} : TRUE

\* results.sort(key=lambda r: r.zone): by alphabetical rank, a stable sort
RECURSIVE SortByZone(_, _)
SortByZone(rows, rank) ==
    IF rank > Len(ALL_ZONES) THEN <<>>
    ELSE LET IsZone(r) == r.result.zone = ALL_ZONES[rank]
         IN  SelectSeq(rows, IsZone) \o SortByZone(rows, rank + 1)

\* a number in two digits, as %m and %d print it
Pad2(n) == IF n < 10 THEN "0" \o ToString(n) ELSE ToString(n)

\* now_ept.strftime("%Y-%m-%d")
strftime(now) ==
    ToString(now.year) \o "-" \o Pad2(now.month) \o "-" \o Pad2(now.day)

\* MarginalFuelClient.get_marginal_fuel(zone) of a client built with the
\* default zones, datetime.now() reading now_ept; "" stands for no zone
\* filter.  Each element pairs a result with the locals behind it.
get_marginal_fuel(zone, now_ept) ==
    LET date_str == strftime(now_ept)
        cur_hour == now_ept.hour
        z_upper == Upper(zone)
        IsZone(z) == z = z_upper
        zones == IF zone # "" THEN SelectSeq(ALL_ZONES, IsZone) ELSE ALL_ZONES
    IN  IF zone # "" /\ zones = <<>> THEN <<>>
        ELSE SortByZone([i \in DOMAIN zones |->
                            ZoneResult(zones[i], date_str, cur_hour)], 1)

\* Counter(...).most_common(1)[0][0]: the most frequent current fuel, the
\* one met first among equals
DominantFuel(records) ==
    LET Count(f) == Cardinality({i \in DOMAIN records :
                                    records[i].current_fuel = f})
        First(f) == CHOOSE i \in DOMAIN records :
                       /\ records[i].current_fuel = f
                       /\ \A j \in 1..(i - 1) : records[j].current_fuel # f
        best == CHOOSE i \in DOMAIN records :
                   /\ First(records[i].current_fuel) = i
                   /\ \A j \in DOMAIN records :
                         LET f == records[i].current_fuel
                             g == records[j].current_fuel
                         IN  \/ Count(g) < Count(f)
                             \/ Count(g) = Count(f) /\ First(f) <= First(g)
    IN  IF records = <<>> THEN "N/A" ELSE records[best].current_fuel

\* the summary block of the /api/marginal-fuel response (the hour of the
\* snapshot and the day window come from a second reading of the clock and
\* are left out)
MarginalFuelSummary(records) ==
    LET IsFossil(r) == r.is_fossil
        fossil_count == Len(SelectSeq(records, IsFossil))
    IN  [total_zones          |-> Len(records),
         dominant_fuel        |-> DominantFuel(records),
         fossil_zone_count    |-> fossil_count,
         renewable_zone_count |-> Len(records) - fossil_count]

-----------------------------------------------------------------------------
(* Inputs of the marginal-fuel specification *)

\* zone filters of a request; "" is the omitted parameter
FuelZoneInputs == {"", "DPL", "dpl", "BGE", "XYZ"}

\* readings of datetime.now(tz=PJM_TIMEZONE): year, month, day and hour
ClockInputs ==
    {[year |-> t[1], month |-> t[2], day |-> t[3], hour |-> t[4]] :
        t \in {<<2025, 1, 1, 0>>, <<2025, 1, 6, 3>>, <<2025, 1, 15, 3>>,
               <<2025, 1, 15, 23>>, <<2025, 6, 10, 23>>, <<2026, 10, 30, 0>>,
               <<2026, 10, 30, 3>>, <<2026, 10, 31, 3>>}}

\* the requests served: <<zone filter, reading of the clock>>.  A request
\* for all zones is made at midnight of 30 October 2026 only.
FuelRequestInputs ==
    ((FuelZoneInputs \ {""}) \X ClockInputs)
        \cup {<<"", [year |-> 2026, month |-> 10, day |-> 30, hour |-> 0]>>}

-----------------------------------------------------------------------------
(* Actions of the marginal-fuel specification *)

\* the clock does not run backwards
NotBefore(earlier, later) ==
    LET Stamp(now) == ((now.year - 2000) * 400 + now.month * 31 + now.day) * 24
                        + now.hour
    IN  Stamp(earlier) <= Stamp(later)

\* GET /api/marginal-fuel: the client call, the 404 for an explicit zone
\* with no result, the records and the summary
api_get_marginal_fuel ==
    \E request \in FuelRequestInputs :
     \E zone \in {request[1]}, now_ept \in {request[2]} :
       /\ fuel_call # <<>> => NotBefore(fuel_call[1].now, now_ept)
       /\ \E found \in {get_marginal_fuel(zone, now_ept)},
             served \in {[zone |-> zone, now |-> now_ept,
                          date |-> strftime(now_ept),
                          hour |-> now_ept.hour]} :
           \E records \in {[i \in DOMAIN found |-> found[i].result]} :
              IF found = <<>> /\ zone # ""
              THEN fuel_call' = <<served @@
                                  [status |-> 404, data |-> <<>>,
                                   locals |-> <<>>]>>
              ELSE fuel_call' = <<served @@
                                  [status  |-> 200,
                                   data    |-> records,
                                   summary |-> MarginalFuelSummary(records),
                                   locals  |-> [i \in DOMAIN found |->
                                                   found[i].locals]]>>
       /\ fuel_prev' = IF fuel_call = <<>> THEN <<>>
                       ELSE <<[fuel_call[1] EXCEPT !.locals = <<>>]>>
       /\ UNCHANGED fuelOthers

InitFuel ==
    /\ ArbIdle /\ ConvIdle /\ GapIdle /\ WxIdle /\ NormIdle /\ SparkIdle
    /\ KeyIdle /\ GetIdle /\ PagesIdle /\ StationIdle
    /\ fuel_prev = <<>>
    /\ fuel_call = <<>>

NextFuel == api_get_marginal_fuel

SpecFuel == InitFuel /\ [][NextFuel]_vars

-----------------------------------------------------------------------------
(* The two routes that take a zone filter and answer 404 for a zone their   *)
(* client does not know, served side by side.  The routes share no state,   *)
(* so the marginal-fuel requests are taken first.                            *)

InitZones == AllIdle

NextZones ==
    \/ api_get_resource_gap
    \/ GapIdle /\ api_get_marginal_fuel

SpecZones == InitZones /\ [][NextZones]_vars

-----------------------------------------------------------------------------
(* WeatherClient *)
(*   A temperature counts 0.01 degree, a load 0.1 MW and a load delta 0.01  *)
(*   percent.  _fetch_observations rounds both temperatures to 2 decimals   *)
(*   and the load fetchers round the hourly mean to 1 decimal, so the       *)
(*   round(temp_c, 2), round(forecast, 1) and round(actual, 1) of           *)
(*   _build_records return the value they are given.  A cell of a merged   *)
(*   load column is <<value>>, or <<>> for NaN, until fillna.               *)

HEAT_STRESS_F == 9000
COLD_SNAP_F == 2000

\* merged.merge(frame[["hour_ept", column]], on="hour_ept", how="inner"): the
\* rows without a match dropped
inner_merge(merged, frame, column) ==
    LET RECURSIVE Joined(_)
        Joined(i) ==
            IF i > Len(merged) THEN <<>>
            ELSE LET Matches(row) == row.hour_ept = merged[i].hour_ept
                     found == SelectSeq(frame, Matches)
                 IN  [k \in DOMAIN found |->
                         merged[i] @@ (column :> <<found[k][column]>>)]
                     \o Joined(i + 1)
    IN  Joined(1)

\* merged.merge(frame[["hour_ept", column]], on="hour_ept", how="left"): each
\* row of merged once per row of frame with its hour, in the order of merged,
\* and once with NaN when frame has none
left_merge(merged, frame, column) ==
    LET RECURSIVE Joined(_)
        Joined(i) ==
            IF i > Len(merged) THEN <<>>
            ELSE LET Matches(row) == row.hour_ept = merged[i].hour_ept
                     found == SelectSeq(frame, Matches)
                 IN  (IF found = <<>>
                      THEN <<merged[i] @@ (column :> <<>>)>>
                      ELSE [k \in DOMAIN found |->
                               merged[i] @@ (column :> <<found[k][column]>>)])
                     \o Joined(i + 1)
    IN  Joined(1)

\* merged[column] = 0.0
WithColumn(merged, column) ==
    [i \in DOMAIN merged |-> merged[i] @@ (column :> <<0>>)]

\* merged[column].fillna(0.0)
fillna(merged, column) ==
    [i \in DOMAIN merged |->
        [merged[i] EXCEPT ![column] =
            IF merged[i][column] = <<>> THEN 0 ELSE merged[i][column][1]]]

\* round((actual - forecast) / forecast * 100, 2) if forecast > 0 else 0.0;
\* on an exact half the binary value can round either way
delta_pct(actual, forecast) ==
    IF forecast > 0
    THEN RoundOutcomes(10000 * (actual - forecast), forecast)
    ELSE {0}

\* a temperature equal to a threshold raising the alert
alertInclusive(temp_f) ==
    IF temp_f >= HEAT_STRESS_F THEN "Heat Stress"
    ELSE IF temp_f <= COLD_SNAP_F THEN "Cold Snap"
    ELSE "Normal"

\* if temp_f > HEAT_STRESS_F ... elif temp_f < COLD_SNAP_F ... else ...
alert(temp_f) ==
    IF temp_f > HEAT_STRESS_F THEN "Heat Stress"
    ELSE IF temp_f < COLD_SNAP_F THEN "Cold Snap"
    ELSE "Normal"

\* the loop of _build_records from row i of merged on: the lists of
\* WeatherHour it can build
RECURSIVE WeatherHours(_, _, _, _)
WeatherHours(zone, station_id, merged, i) ==
    IF i > Len(merged) THEN {<<>>}
    ELSE LET row == merged[i]
         IN  {<<[timestamp        |-> row.hour_ept,
                 temperature_f    |-> row.temp_f,
                 temperature_c    |-> row.temp_c,
                 zone             |-> zone,
                 station_id       |-> station_id,
                 load_forecast_mw |-> row.forecast_mw,
                 actual_load_mw   |-> row.actual_mw,
                 load_delta_pct   |-> delta,
                 weather_alert    |-> alert(row.temp_f)]>> \o rest :
                delta \in delta_pct(row.actual_mw, row.forecast_mw),
                rest \in WeatherHours(zone, station_id, merged, i + 1)}

\* WeatherClient._build_records: the lists of records it can return
_build_records(zone, station_id, obs_df, actual_df, forecast_df) ==
    IF obs_df = <<>> THEN {<<>>}
    ELSE LET with_actual ==
                 IF actual_df # <<>>
                 THEN left_merge(obs_df, actual_df, "actual_mw")
                 ELSE WithColumn(obs_df, "actual_mw")
             with_forecast ==
                 IF forecast_df # <<>>
                 THEN left_merge(with_actual, forecast_df, "forecast_mw")
                 ELSE WithColumn(with_actual, "forecast_mw")
             merged == fillna(fillna(with_forecast, "actual_mw"),
                              "forecast_mw")
         IN  WeatherHours(zone, station_id, merged, 1)

RECURSIVE SumTemps(_)
SumTemps(records) ==
    IF records = <<>> THEN 0
    ELSE Head(records).temperature_f + SumTemps(Tail(records))

\* sum(1 for r in records if r.weather_alert == which)
CountAlert(records, which) ==
    Cardinality({i \in DOMAIN records : records[i].weather_alert = which})

\* WeatherClient._build_result: the results it can return (the window is
\* the clock's and is left out)
WeatherClient_build_result(zone, station_id, city, records) ==
    IF records = <<>>
    THEN {[zone |-> zone, station_id |-> station_id, station_city |-> city,
           records |-> <<>>, avg_temp_f |-> 0, max_temp_f |-> 0,
           min_temp_f |-> 0, heat_hours |-> 0, cold_hours |-> 0,
           total_hours |-> 0]}
    ELSE LET temps == {records[i].temperature_f : i \in DOMAIN records}
         IN  {[zone         |-> zone,
               station_id   |-> station_id,
               station_city |-> city,
               records      |-> records,
               avg_temp_f   |-> avg,
               max_temp_f   |-> CHOOSE t \in temps : \A u \in temps : u <= t,
               min_temp_f   |-> CHOOSE t \in temps : \A u \in temps : t <= u,
               heat_hours   |-> CountAlert(records, "Heat Stress"),
               cold_hours   |-> CountAlert(records, "Cold Snap"),
               total_hours  |-> Len(records)] :
                avg \in RoundOutcomes(SumTemps(records), Len(records))}

-----------------------------------------------------------------------------
(* Inputs of the weather specification *)

\* the hours of the window that can carry an observation
WxHours == 4

\* <<temp_c, temp_f>> of an hourly observation
TempInputs ==
    {<<-667, 1999>>, <<-667, 2000>>, <<3222, 9000>>, <<3223, 9001>>}

\* the frames _fetch_observations can return for the hours from h on: at
\* most one row per hour, sorted by hour
RECURSIVE ObsFrames(_)
ObsFrames(h) ==
    IF h > WxHours THEN {<<>>}
    ELSE LET later == ObsFrames(h + 1)
         IN  later \cup
             {<<[hour_ept |-> h, temp_c |-> t[1], temp_f |-> t[2]]>> \o rest :
                t \in TempInputs, rest \in later}

\* frames _fetch_actual_load can return: one row per hour, or empty
ActualInputs ==
    {<<>>,
     <<[hour_ept |-> 1, actual_mw |-> 12345]>>,
     <<[hour_ept |-> 1, actual_mw |-> 10000],
       [hour_ept |-> 2, actual_mw |-> 20001],
       [hour_ept |-> 3, actual_mw |-> 0]>>,
     <<[hour_ept |-> 2, actual_mw |-> 9000],
       [hour_ept |-> 5, actual_mw |-> 500]>>}

\* frames _fetch_forecast_load can return: one row per hour, or empty
ForecastInputs ==
    {<<>>,
     <<[hour_ept |-> 1, forecast_mw |-> 10000],
       [hour_ept |-> 2, forecast_mw |-> 20000],
       [hour_ept |-> 3, forecast_mw |-> 30000]>>,
     <<[hour_ept |-> 1, forecast_mw |-> 0],
       [hour_ept |-> 2, forecast_mw |-> -500]>>,
     <<[hour_ept |-> 2, forecast_mw |-> 30000],
       [hour_ept |-> 5, forecast_mw |-> 10]>>}

-----------------------------------------------------------------------------
(* Actions of the weather specification *)

fallback_station == "KPHL"

\* what the gridpoints request can come back with: a feature list with its
\* first station, an empty feature list, an error
GridpointsResponses ==
    {[kind |-> "features", station |-> "KPNE"],
     [kind |-> "empty", station |-> ""],
     [kind |-> "error", station |-> ""]}

\* some call for the cell has returned
SomeCallCompleted == \E t \in StationThreads : st_returned[t] # <<>>

\* get_weather as a request thread runs it up to its first wait: the zone's
\* grid cell is looked up and _resolve_station entered, where a cached id is
\* returned at once and the gridpoints request is sent otherwise.  The calls
\* are for zone bge, whose cell is PAX/96,70 with fallback KPHL.
get_weather_call(t) ==
    /\ st_pc[t] = "idle"
    /\ Len(st_returned[t]) < MaxStationCalls
    /\ IF _station_cache # <<>>
       THEN /\ st_returned' = [st_returned EXCEPT
                                 ![t] = Append(@, _station_cache[1])]
            /\ st_pc' = [st_pc EXCEPT ![t] = "fetch"]
            /\ UNCHANGED <<st_lookups, st_late_lookups>>
       ELSE /\ st_pc' = [st_pc EXCEPT ![t] = "lookup"]
            /\ st_lookups' = st_lookups + 1
            /\ st_late_lookups' = IF SomeCallCompleted
                                  THEN st_late_lookups + 1
                                  ELSE st_late_lookups
            /\ UNCHANGED st_returned
    /\ UNCHANGED <<_station_cache, wxVars>>
    /\ UNCHANGED wxOthers

\* the gridpoints response of a thread is in: the first station of the
\* feature list, or the fallback, is written to the cache, over whatever
\* another thread wrote in the meantime, and returned to get_weather
resolve_station_response(t) ==
    /\ st_pc[t] = "lookup"
    /\ \E resp \in GridpointsResponses :
          LET station_id == IF resp.kind = "features" THEN resp.station
                            ELSE fallback_station
          IN  /\ _station_cache' = <<station_id>>
              /\ st_returned' = [st_returned EXCEPT
                                   ![t] = Append(@, station_id)]
    /\ st_pc' = [st_pc EXCEPT ![t] = "fetch"]
    /\ UNCHANGED <<st_lookups, st_late_lookups, wxVars>>
    /\ UNCHANGED wxOthers

\* the rest of get_weather on a thread that holds its station id: the three
\* fetches have returned their frames, _build_records and _build_result
\* make the result of the call
get_weather_return(t, obs_df, actual_df, forecast_df) ==
    /\ st_pc[t] = "fetch"
    /\ \E zone \in {"bge"},
          station_id \in {st_returned[t][Len(st_returned[t])]} :
          /\ wx_request' = <<zone, station_id, obs_df, actual_df, forecast_df>>
          /\ \E records \in _build_records(Upper(zone), station_id, obs_df,
                                           actual_df, forecast_df) :
                \E result \in WeatherClient_build_result(
                                 Upper(zone), station_id, "Philadelphia",
                                 records) :
                   wx_result' = <<result>>
    /\ st_pc' = [st_pc EXCEPT ![t] = "idle"]
    /\ UNCHANGED <<_station_cache, st_returned, st_lookups, st_late_lookups>>
    /\ UNCHANGED wxOthers

\* the calls of get_weather that the given threads make at the same time,
\* followed until the first of them has returned its result
WeatherCalls(threads) ==
    /\ wx_request = <<>>
    /\ \E t \in threads :
          \/ get_weather_call(t)
          \/ resolve_station_response(t)
          \/ \E obs_df \in ObsFrames(1), actual_df \in ActualInputs,
                forecast_df \in ForecastInputs :
                get_weather_return(t, obs_df, actual_df, forecast_df)

\* the cache of the process is empty, or holds what an earlier call left
InitWx ==
    /\ ArbIdle /\ ConvIdle /\ GapIdle /\ FuelIdle /\ WxIdle /\ NormIdle
    /\ SparkIdle /\ KeyIdle /\ GetIdle /\ PagesIdle
    /\ _station_cache \in {<<>>, <<"KPHL">>, <<"KPNE">>}
    /\ st_pc = [t \in StationThreads |-> "idle"]
    /\ st_returned = [t \in StationThreads |-> <<>>]
    /\ st_lookups = 0
    /\ st_late_lookups = 0

\* two calls at a time give every order of the accesses to the cache
WxThreads == {1, 2}

NextWx == WeatherCalls(WxThreads)

SpecWx == InitWx /\ [][NextWx]_vars

-----------------------------------------------------------------------------
(* The LMP normalizers: LMPClient._parse and _normalize_lmp_items *)
(*   A raw price counts 1e-7 dollar; a value rounded to 6 decimals counts   *)
(*   1e-6 dollar.  A raw cell is [kind, num]: kind "number" with its value, *)
(*   "null" for JSON null, "text" for a non-empty string that is not a      *)
(*   number, "missing" for a key the item does not have.                    *)

PriceColumns == <<"total_lmp_rt", "congestion_price_rt", "marginal_loss_price_rt">>

\* col in df.columns: some item has the key
InColumns(items, col) ==
    \E i \in DOMAIN items : items[i][col].kind # "missing"

\* pd.to_numeric(df[col], errors="coerce").fillna(0.0) of one cell
to_numeric(cell) == IF cell.kind = "number" THEN cell.num ELSE 0

\* the difference rounded to 3 decimals
energy_componentCoarse(total, cong, loss) ==
    {1000 * q : q \in RoundOutcomes(total - cong - loss, 10000)}

\* (total - congestion - loss).round(6), also round(total - cong - loss, 6);
\* on an exact half the binary value can round either way
energy_component(total, cong, loss) ==
    RoundOutcomes(total - cong - loss, 10)

\* the rows of LMPClient._parse from item i on
RECURSIVE ParsedRows(_, _)
ParsedRows(items, i) ==
    IF i > Len(items) THEN {<<>>}
    ELSE LET total == to_numeric(items[i].total_lmp_rt)
             cong  == to_numeric(items[i].congestion_price_rt)
             loss  == to_numeric(items[i].marginal_loss_price_rt)
         IN  {<<[zone_name            |-> items[i].pnode_name,
                 lmp_total            |-> total,
                 energy_component     |-> energy,
                 congestion_component |-> cong,
                 loss_component       |-> loss,
                 timestamp_ept        |-> items[i].datetime_beginning_ept]>>
                \o rest :
                energy \in energy_component(total, cong, loss),
                rest \in ParsedRows(items, i + 1)}

\* LMPClient._parse(items): the frames it can return, or the KeyError of
\* df["total_lmp_rt"] - df["congestion_price_rt"] - df["marginal_loss_price_rt"]
\* for a column no item has
LMPClient_parse(items) ==
    IF items = <<>> THEN {[status |-> "returned", rows |-> <<>>]}
    ELSE IF \E c \in DOMAIN PriceColumns : ~InColumns(items, PriceColumns[c])
    THEN {[status |-> "KeyError", rows |-> <<>>]}
    ELSE {[status |-> "returned", rows |-> rows] :
             rows \in ParsedRows(items, 1)}

\* float(item.get(key) or 0.0) raises ValueError for a string that is not
\* a number
FloatRaises(cell) == cell.kind = "text"

\* float(item.get(key) or 0.0) where it does not raise
FloatOrZero(cell) == IF cell.kind = "number" THEN cell.num ELSE 0

\* the records of _normalize_lmp_items from item i on
RECURSIVE NormalizedRecords(_, _)
NormalizedRecords(items, i) ==
    IF i > Len(items) THEN {<<>>}
    ELSE LET total == FloatOrZero(items[i].total_lmp_rt)
             cong  == FloatOrZero(items[i].congestion_price_rt)
             loss  == FloatOrZero(items[i].marginal_loss_price_rt)
         IN  {<<[zone_name            |-> items[i].pnode_name,
                 lmp_total            |-> t,
                 energy_component     |-> energy,
                 congestion_component |-> c,
                 loss_component       |-> l,
                 timestamp            |-> items[i].datetime_beginning_ept]>>
                \o rest :
                energy \in energy_component(total, cong, loss),
                t \in RoundOutcomes(total, 10),
                c \in RoundOutcomes(cong, 10),
                l \in RoundOutcomes(loss, 10),
                rest \in NormalizedRecords(items, i + 1)}

\* _normalize_lmp_items(items): the lists it can return, or the ValueError
\* of the first float() that fails
_normalize_lmp_items(items) ==
    IF \E i \in DOMAIN items : \E c \in DOMAIN PriceColumns :
          FloatRaises(items[i][PriceColumns[c]])
    THEN {[status |-> "ValueError", rows |-> <<>>]}
    ELSE {[status |-> "returned", rows |-> rows] :
             rows \in NormalizedRecords(items, 1)}

-----------------------------------------------------------------------------
(* Inputs of the normalizer specification *)

\* raw items a feed returns at most
MaxItems == 2

Number(n) == [kind |-> "number", num |-> n]
Null      == [kind |-> "null", num |-> 0]
Text      == [kind |-> "text", num |-> 0]
Missing   == [kind |-> "missing", num |-> 0]

\* <<total_lmp_rt, congestion_price_rt, marginal_loss_price_rt>> of an item
RawPriceInputs ==
    {<<Number(301234567), Number(15000005), Number(4999995)>>,
     <<Number(301234567), Number(15000007), Number(4999995)>>,
     <<Number(301234567), Number(-25), Number(4999995)>>,
     <<Number(301234567), Null, Number(4999995)>>,
     <<Number(301234567), Text, Number(4999995)>>,
     <<Number(301234567), Missing, Number(4999995)>>,
     <<Null, Number(15000005), Number(4999995)>>,
     <<Text, Number(-25), Number(4999995)>>,
     <<Missing, Number(15000005), Missing>>,
     <<Number(301234567), Number(15000005), Text>>,
     <<Number(301234567), Number(15000005), Missing>>}

\* one raw item of the feed for an hour
ItemInputs ==
    {[pnode_name |-> "BGE", datetime_beginning_ept |-> h,
      total_lmp_rt |-> p[1], congestion_price_rt |-> p[2],
      marginal_loss_price_rt |-> p[3]] : h \in 1..2, p \in RawPriceInputs}

\* the feeds: up to MaxItems items in the order the request asks for
\* (sort=datetime_beginning_ept, order=1), an hour possibly more than once
RECURSIVE FeedsOf(_)
FeedsOf(n) ==
    IF n = 0 THEN {<<>>}
    ELSE LET shorter == FeedsOf(n - 1)
         IN  shorter \cup
             {Append(f, item) : f \in {g \in shorter : Len(g) = n - 1},
                                item \in ItemInputs}

FeedInputs ==
    {f \in FeedsOf(MaxItems) :
        \A i \in 1..(Len(f) - 1) :
           f[i].datetime_beginning_ept <= f[i + 1].datetime_beginning_ept}

-----------------------------------------------------------------------------
(* Actions of the normalizer specification *)

\* LMPClient._parse on the items of a feed
parse_call ==
    /\ norm_request = <<>>
    /\ \E items \in FeedInputs :
          /\ norm_request' = <<"_parse", items>>
          /\ \E outcome \in LMPClient_parse(items) :
                norm_response' = outcome
    /\ UNCHANGED normOthers

\* _normalize_lmp_items on the items of a feed
normalize_lmp_items_call ==
    /\ norm_request = <<>>
    /\ \E items \in FeedInputs :
          /\ norm_request' = <<"_normalize_lmp_items", items>>
          /\ \E outcome \in _normalize_lmp_items(items) :
                norm_response' = outcome
    /\ UNCHANGED normOthers

InitLmp == AllIdle

NextLmp == parse_call \/ normalize_lmp_items_call

SpecLmp == InitLmp /\ [][NextLmp]_vars

-----------------------------------------------------------------------------
(* SparkSpreadClient *)
(*   A heat rate counts 0.1 MMBtu/MWh, a gas price 0.01 dollar, a raw LMP   *)
(*   1e-5 dollar, and every value of the table 1e-4 dollar.  The product    *)
(*   gas_price * heat_rate has 3 decimals, so round(..., 4) returns it.     *)

\* SparkSpreadClient.__init__: what the two checks do
SparkSpreadClient(heat_rate, gas_price) ==
    IF heat_rate <= 0 THEN "ValueError"
    ELSE IF gas_price < 0 THEN "ValueError"
    ELSE "constructed"

\* the Query bounds of the route (ge=5.0, le=15.0; ge=0.50, le=20.00) and the
\* two checks of its body, which repeat them
SparkRouteValid(heat_rate, gas_price) ==
    /\ heat_rate >= 50 /\ heat_rate <= 150
    /\ gas_price >= 50 /\ gas_price <= 2000

\* round(self.gas_price * self.heat_rate, 4)
gas_cost(heat_rate, gas_price) == heat_rate * gas_price * 10

\* the rows of the table before the sort, from row i of snapshot on
RECURSIVE SpreadRows(_, _, _, _)
SpreadRows(heat_rate, gas_price, snapshot, i) ==
    IF i > Len(snapshot) THEN {<<>>}
    ELSE {<<[zone_name      |-> snapshot[i].zone_name,
             lmp            |-> lmp,
             gas_cost       |-> gas_cost(heat_rate, gas_price),
             spark_spread   |-> lmp - gas_cost(heat_rate, gas_price),
             heat_rate      |-> heat_rate,
             gas_price_used |-> gas_price,
             timestamp      |-> snapshot[i].timestamp_ept]>> \o rest :
            lmp \in RoundOutcomes(snapshot[i].lmp_total, 10),
            rest \in SpreadRows(heat_rate, gas_price, snapshot, i + 1)}

\* df.sort_values("spark_spread", ascending=False): the default sort is not
\* stable, so equal spreads come in any order
SortBySpread(rows) ==
    {sorted \in {[i \in DOMAIN rows |-> rows[p[i]]] :
                    p \in Permutations(DOMAIN rows)} :
        \A i \in 1..(Len(sorted) - 1) :
           sorted[i].spark_spread >= sorted[i + 1].spark_spread}

\* SparkSpreadClient._calculate(snapshot): the tables it can return
_calculate(heat_rate, gas_price, snapshot) ==
    IF snapshot = <<>> THEN {<<>>}
    ELSE UNION {SortBySpread(rows) :
                   rows \in SpreadRows(heat_rate, gas_price, snapshot, 1)}

RECURSIVE SumSparkSpreads(_)
SumSparkSpreads(rows) ==
    IF rows = <<>> THEN 0
    ELSE Head(rows).spark_spread + SumSparkSpreads(Tail(rows))

\* the summary of the /spark-spread response for a non-empty table
SparkSpreadSummary(df, heat_rate, gas_price) ==
    {[total_zones         |-> Len(df),
      profitable_zones    |-> Cardinality({i \in DOMAIN df :
                                              df[i].spark_spread > 0}),
      avg_spark_spread    |-> avg,
      best_zone           |-> df[1].zone_name,
      worst_zone          |-> df[Len(df)].zone_name,
      gas_cost_per_mwh    |-> gas_cost(heat_rate, gas_price),
      heat_rate           |-> heat_rate,
      gas_price_per_mmbtu |-> gas_price] :
        avg \in RoundOutcomes(SumSparkSpreads(df), Len(df))}

\* the summary of the response for an empty table
SparkSpreadNoData(heat_rate, gas_price) ==
    [total_zones |-> 0, profitable_zones |-> 0, avg_spark_spread |-> 0,
     best_zone |-> "N/A", worst_zone |-> "N/A",
     gas_cost_per_mwh |-> gas_cost(heat_rate, gas_price),
     heat_rate |-> heat_rate, gas_price_per_mmbtu |-> gas_price]

-----------------------------------------------------------------------------
(* Inputs of the spark-spread specification *)

HeatRateInputs == {-10, 0, 30, 49, 50, 70, 150, 151}
GasPriceInputs == {-1, 0, 49, 50, 400, 2000, 2001}
SparkZoneInputs == {"", "bge", "XYZ"}

\* the frames get_latest_lmp_snapshot can return: the rows of one hour
SnapshotInputs ==
    {<<>>,
     <<[zone_name |-> "BGE", lmp_total |-> 3012345, timestamp_ept |-> 1]>>,
     <<[zone_name |-> "BGE", lmp_total |-> 2500000, timestamp_ept |-> 1],
       [zone_name |-> "DPL", lmp_total |-> 3100005, timestamp_ept |-> 1]>>,
     <<[zone_name |-> "BGE", lmp_total |-> 2800000, timestamp_ept |-> 1],
       [zone_name |-> "DPL", lmp_total |-> 2800000, timestamp_ept |-> 1]>>}

-----------------------------------------------------------------------------
(* Actions of the spark-spread specification *)

\* fetch_spark_spread_snapshot(heat_rate, gas_price): the constructor, then
\* get_snapshot
fetch_spark_spread_snapshot ==
    /\ spark_request = <<>>
    /\ \E heat_rate \in HeatRateInputs, gas_price \in GasPriceInputs,
          snapshot \in SnapshotInputs :
          /\ spark_request' = <<"direct", heat_rate, gas_price, "", snapshot>>
          /\ IF SparkSpreadClient(heat_rate, gas_price) = "ValueError"
             THEN spark_response' = [status |-> "ValueError", data |-> <<>>]
             ELSE \E df \in _calculate(heat_rate, gas_price, snapshot) :
                     spark_response' = [status |-> "returned", data |-> df]
    /\ UNCHANGED sparkOthers

\* GET /spark-spread: the parameter bounds, the client, the snapshot, the
\* empty response, the zone filter with its 404, the records and the summary
api_get_spark_spread ==
    /\ spark_request = <<>>
    /\ \E heat_rate \in HeatRateInputs, gas_price \in GasPriceInputs,
          zone \in SparkZoneInputs, snapshot \in SnapshotInputs :
          /\ spark_request' = <<"route", heat_rate, gas_price, zone, snapshot>>
          /\ IF ~SparkRouteValid(heat_rate, gas_price)
             THEN spark_response' = [status |-> 422, data |-> <<>>]
             ELSE IF SparkSpreadClient(heat_rate, gas_price) = "ValueError"
             THEN spark_response' = [status |-> 500, data |-> <<>>]
             ELSE \E df \in _calculate(heat_rate, gas_price, snapshot) :
                    LET OfZone(row) == Upper(row.zone_name) = Upper(zone)
                        filtered == IF zone # "" THEN SelectSeq(df, OfZone)
                                    ELSE df
                    IN  IF df = <<>>
                        THEN spark_response' =
                               [status  |-> 200, data |-> <<>>,
                                summary |-> SparkSpreadNoData(heat_rate,
                                                              gas_price)]
                        ELSE IF filtered = <<>>
                        THEN spark_response' = [status |-> 404, data |-> <<>>]
                        ELSE \E summary \in SparkSpreadSummary(
                                               filtered, heat_rate, gas_price) :
                                spark_response' =
                                   [status  |-> 200, data |-> filtered,
                                    summary |-> summary]
    /\ UNCHANGED sparkOthers

InitSpark == AllIdle

NextSpark == fetch_spark_spread_snapshot \/ api_get_spark_spread

SpecSpark == InitSpark /\ [][NextSpark]_vars

-----------------------------------------------------------------------------
(* The four engines that take a fetched series *)
(*   One request is followed per behaviour: an engine acts while the other  *)
(*   three have not been called.                                            *)

InitEmpty == AllIdle

NextEmpty ==
    \/ /\ ConvIdle /\ WxIdle /\ StationIdle /\ SparkIdle
       /\ Construct \/ get_battery_arbitrage \/ get_arbitrage
    \/ /\ ArbIdle /\ WxIdle /\ StationIdle /\ SparkIdle
       /\ get_convergence
    \/ /\ ArbIdle /\ ConvIdle /\ SparkIdle
       /\ WeatherCalls({1})
    \/ /\ ArbIdle /\ ConvIdle /\ WxIdle /\ StationIdle
       /\ fetch_spark_spread_snapshot \/ api_get_spark_spread

SpecEmpty == InitEmpty /\ [][NextEmpty]_vars

-----------------------------------------------------------------------------
(* _get_subscription_key of api.py *)
(*   The callers are tasks of one asyncio event loop: a task runs alone     *)
(*   from one await to the next.  The function awaits twice, for _key_lock  *)
(*   when it cannot take it at once and for the settings response, so an    *)
(*   action is the code between two of these points.                        *)

\* asyncio.Lock.acquire takes the lock without waiting whatever its state
LockIsFreeAlways(lock) == TRUE

\* asyncio.Lock.acquire takes the lock without waiting: it is not held and no
\* task waits for it
LockIsFree(lock) == ~lock.locked /\ lock.waiters = <<>>

\* asyncio.Lock.release: the lock is free again and the first waiter is woken.
\* The waiter stays in the queue until it runs.
Release(lock) == [lock EXCEPT !.locked = FALSE]

\* what the settings request can come back with: a key, a body without
\* subscriptionKey, an error status, a timeout or connection error
SettingsResponses ==
    {[kind |-> "ok", key |-> "k1"], [kind |-> "ok", key |-> "k2"],
     [kind |-> "ok", key |-> ""], [kind |-> "status", key |-> ""],
     [kind |-> "timeout", key |-> ""]}

\* a task calls _get_subscription_key: the first check of the key, then the
\* lock, then the second check and the settings request
key_call(t) ==
    /\ key_pc[t] \in {"idle", "returned", "raised"}
    /\ key_calls[t] < MaxCalls
    /\ key_calls' = [key_calls EXCEPT ![t] = @ + 1]
    /\ IF _subscription_key # ""
       THEN /\ key_pc' = [key_pc EXCEPT ![t] = "returned"]
            /\ key_outcome' = [key_outcome EXCEPT ![t] =
                                 [status |-> "returned",
                                  key    |-> _subscription_key]]
            /\ UNCHANGED <<key_lock, key_fetches>>
       ELSE IF LockIsFree(key_lock)
       THEN /\ key_lock' = [key_lock EXCEPT !.locked = TRUE]
            /\ key_pc' = [key_pc EXCEPT ![t] = "fetching"]
            /\ key_outcome' = [key_outcome EXCEPT ![t] = NoOutcome]
            /\ key_fetches' = key_fetches + 1
       ELSE /\ key_lock' = [key_lock EXCEPT !.waiters = Append(@, t)]
            /\ key_pc' = [key_pc EXCEPT ![t] = "waiting"]
            /\ key_outcome' = [key_outcome EXCEPT ![t] = NoOutcome]
            /\ UNCHANGED key_fetches
    /\ UNCHANGED <<_subscription_key, key_successes>>
    /\ UNCHANGED keyOthers

\* the first waiter runs after a release: it holds the lock, checks the key
\* again and returns it, or sends the settings request
key_resume(t) ==
    /\ key_pc[t] = "waiting"
    /\ ~key_lock.locked
    /\ key_lock.waiters # <<>> /\ Head(key_lock.waiters) = t
    /\ IF _subscription_key # ""
       THEN /\ key_lock' = Release([locked  |-> TRUE,
                                    waiters |-> Tail(key_lock.waiters)])
            /\ key_pc' = [key_pc EXCEPT ![t] = "returned"]
            /\ key_outcome' = [key_outcome EXCEPT ![t] =
                                 [status |-> "returned",
                                  key    |-> _subscription_key]]
            /\ UNCHANGED key_fetches
       ELSE /\ key_lock' = [locked  |-> TRUE,
                            waiters |-> Tail(key_lock.waiters)]
            /\ key_pc' = [key_pc EXCEPT ![t] = "fetching"]
            /\ key_fetches' = key_fetches + 1
            /\ UNCHANGED key_outcome
    /\ UNCHANGED <<_subscription_key, key_calls, key_successes>>
    /\ UNCHANGED keyOthers

\* the settings request of a task completes: the key is stored and returned,
\* or the failure becomes an HTTPException 502; the lock is released
key_response(t) ==
    /\ key_pc[t] = "fetching"
    /\ \E resp \in SettingsResponses :
          IF resp.kind = "ok" /\ resp.key # ""
          THEN /\ _subscription_key' = resp.key
               /\ key_successes' = key_successes + 1
               /\ key_pc' = [key_pc EXCEPT ![t] = "returned"]
               /\ key_outcome' = [key_outcome EXCEPT ![t] =
                                    [status |-> "returned", key |-> resp.key]]
          ELSE /\ key_pc' = [key_pc EXCEPT ![t] = "raised"]
               /\ key_outcome' = [key_outcome EXCEPT ![t] =
                                    [status |-> "HTTP502", key |-> ""]]
               /\ UNCHANGED <<_subscription_key, key_successes>>
    /\ key_lock' = Release(key_lock)
    /\ UNCHANGED <<key_calls, key_fetches>>
    /\ UNCHANGED keyOthers

InitKey == AllIdle

NextKey ==
    \E t \in KeyTasks : key_call(t) \/ key_resume(t) \/ key_response(t)

SpecKey == InitKey /\ [][NextKey]_vars

-----------------------------------------------------------------------------
(* The synchronous _get of LMPClient, ConvergenceClient, PJMClient and      *)
(* WeatherClient._pjm_get                                                   *)
(*   A response is its kind: "ok", "4xx", "5xx", "timeout", "connection",   *)
(*   or "other" for what none of the named handlers of lmp.py catches (a    *)
(*   body that is not JSON, another RequestException).  The body of an ok   *)
(*   response is named by the attempt that received it.  Time counts        *)
(*   seconds.                                                               *)

RETRY_BACKOFF == 2

\* largest max_retries a client is built with
MaxRetries == 3

GetClients == {"lmp", "convergence", "pjm_client", "weather"}
ResponseKinds == {"ok", "4xx", "5xx", "timeout", "connection", "other"}

\* the except clauses that store the exception in last_exc, a 4xx included
RetriedWith4xx(http_client, kind) ==
    \/ kind \in {"timeout", "connection", "5xx", "4xx"}
    \/ http_client = "weather" /\ kind = "other"

\* the except clauses that store the exception in last_exc and go on:
\* Timeout, ConnectionError, an HTTPError that is not 4xx, and in
\* weather.py every other Exception
Retried(http_client, kind) ==
    \/ kind \in {"timeout", "connection", "5xx"}
    \/ http_client = "weather" /\ kind = "other"

\* _get(url, params) is called on a client: last_exc is set to the
\* RuntimeError, and the loop starts, or with max_retries = 0 falls
\* through to raise last_exc
get_begin ==
    /\ get_pc = "idle"
    /\ \E http_client \in GetClients, max_retries \in 0..MaxRetries,
          key \in {"", "k"} :
          /\ get_request' = <<http_client, max_retries, key>>
          /\ get_key' = key
          /\ get_last_exc' = Exception("RuntimeError", 0)
          /\ IF max_retries = 0
             THEN /\ get_pc' = "raised"
                  /\ get_outcome' = get_last_exc'
                  /\ get_attempt' = 0
             ELSE /\ get_pc' = "attempting"
                  /\ get_outcome' = NoException
                  /\ get_attempt' = 1
    /\ UNCHANGED get_log
    /\ UNCHANGED getOthers

\* one pass of the loop: the headers (with the settings request when the
\* client holds no key), the GET, the except clause, the sleep
get_attempt_step ==
    /\ get_pc = "attempting"
    /\ \E key \in (IF get_key = "" THEN {"", "k"} ELSE {get_key}),
          kind \in ResponseKinds :
          LET http_client == get_request[1]
              max_retries == get_request[2]
              settings == IF get_key = ""
                          THEN <<[op |-> "settings", key |-> key]>>
                          ELSE <<>>
              request  == <<[op |-> "get", attempt |-> get_attempt,
                             kind |-> kind]>>
              sleep    == <<[op |-> "sleep",
                             wait |-> RETRY_BACKOFF * get_attempt]>>
          IN  /\ get_key' = key
              /\ IF kind = "ok"
                 THEN /\ get_pc' = "returned"
                      /\ get_outcome' = [kind |-> "body",
                                         attempt |-> get_attempt]
                      /\ get_log' = get_log \o settings \o request
                      /\ UNCHANGED <<get_attempt, get_last_exc>>
                 ELSE IF ~Retried(http_client, kind)
                 THEN /\ get_pc' = "raised"
                      /\ get_outcome' = Exception(kind, get_attempt)
                      /\ get_log' = get_log \o settings \o request
                      /\ UNCHANGED <<get_attempt, get_last_exc>>
                 ELSE IF get_attempt < max_retries
                 THEN /\ get_last_exc' = Exception(kind, get_attempt)
                      /\ get_log' = get_log \o settings \o request \o sleep
                      /\ get_attempt' = get_attempt + 1
                      /\ UNCHANGED <<get_pc, get_outcome>>
                 ELSE /\ get_last_exc' = Exception(kind, get_attempt)
                      /\ get_log' = get_log \o settings \o request
                      /\ get_pc' = "raised"
                      /\ get_outcome' = Exception(kind, get_attempt)
                      /\ UNCHANGED get_attempt
    /\ UNCHANGED get_request
    /\ UNCHANGED getOthers

InitGet == AllIdle

NextGet == get_begin \/ get_attempt_step

SpecGet == InitGet /\ [][NextGet]_vars

-----------------------------------------------------------------------------
(* _get_all_pages of LMPClient and PJMClient, _fetch_all_pages of api.py   *)
(*   The url of page i of a feed is i, and 0 stands for None.  A body is    *)
(*   [items, links]; a link is [rel, href].  The items of page i are the    *)
(*   numbers 10 * i + 1, 10 * i + 2, ...                                    *)

\* pages of the longest feed and items of the longest page
MaxPages == 3
MaxPageItems == 2

Paginators == {"LMPClient", "PJMClient", "api"}

\* next((lnk["href"] for lnk in links), None): the first link of any rel
next_hrefAnyRel(links) ==
    IF links = <<>> THEN 0 ELSE links[1].href

\* next((lnk["href"] for lnk in links if lnk.get("rel") == "next"), None)
next_href(links) ==
    LET nexts == {i \in DOMAIN links : links[i].rel = "next"}
    IN  IF nexts = {} THEN 0
        ELSE links[CHOOSE i \in nexts : \A j \in nexts : i <= j].href

\* the body of page i of a feed of k pages holding m items: a self link, a
\* prev link after the first page and a next link before the last
PageBody(i, k, m) ==
    [items |-> [j \in 1..m |-> 10 * i + j],
     links |-> <<[rel |-> "self", href |-> i]>>
               \o (IF i > 1 THEN <<[rel |-> "prev", href |-> i - 1]>>
                   ELSE <<>>)
               \o (IF i < k THEN <<[rel |-> "next", href |-> i + 1]>>
                   ELSE <<>>)]

\* the feeds of a server: 1..MaxPages pages of 0..MaxPageItems items each
FeedPages ==
    UNION {{[i \in 1..k |-> PageBody(i, k, sizes[i])] :
              sizes \in [1..k -> 0..MaxPageItems]} : k \in 1..MaxPages}

\* the params a caller passes
ParamInputs == {<<>>, <<"rowCount", "startRow">>}

\* the paginator is called: all_items, current_url and current_params are set
get_all_pages_begin ==
    /\ pg_pc = "idle"
    /\ \E paginator \in Paginators, params \in ParamInputs,
          pages \in FeedPages :
          /\ pg_call' = <<paginator, params, pages>>
          /\ current_params' = params
    /\ pg_pc' = "paging"
    /\ current_url' = 1
    /\ all_items' = <<>>
    /\ UNCHANGED <<pg_requests, pg_outcome>>
    /\ UNCHANGED pagesOthers

\* one pass of the while loop: the page is requested with current_params or
\* {}; an exception of the request leaves the function; else the items are
\* appended and the next link followed, and the list is returned when there
\* is none
get_all_pages_step ==
    /\ pg_pc = "paging"
    /\ pg_requests' = Append(pg_requests,
                             [url |-> current_url, params |-> current_params])
    /\ \E failed \in BOOLEAN :
          IF failed
          THEN /\ pg_pc' = "raised"
               /\ pg_outcome' = <<>>
               /\ UNCHANGED <<current_url, current_params, all_items>>
          ELSE LET body  == pg_call[3][current_url]
                   items == all_items \o body.items
                   href  == next_href(body.links)
               IN  /\ all_items' = items
                   /\ current_url' = href
                   /\ current_params' = <<>>
                   /\ IF href = 0
                      THEN pg_pc' = "returned" /\ pg_outcome' = items
                      ELSE pg_pc' = "paging" /\ pg_outcome' = <<>>
    /\ UNCHANGED pg_call
    /\ UNCHANGED pagesOthers

InitPages == AllIdle

NextPages == get_all_pages_begin \/ get_all_pages_step

SpecPages == InitPages /\ [][NextPages]_vars

-----------------------------------------------------------------------------
(* The request threads of get_weather and the station cache *)
(*   The calls are for one grid cell, PAX/96,70 with fallback KPHL.  They   *)
(*   run on threads, so a step is the code of a call between two waits: up  *)
(*   to the gridpoints request, from its response to the fetches, and from  *)
(*   the fetched frames to the result.  The fetches return no rows here.    *)

InitStation == AllIdle

NextStation ==
    \E t \in StationThreads :
       \/ get_weather_call(t)
       \/ resolve_station_response(t)
       \/ get_weather_return(t, <<>>, <<>>, <<>>)

SpecStation == InitStation /\ [][NextStation]_vars

-----------------------------------------------------------------------------
(* Properties of the arbitrage specification *)

SetOf(seq) == {seq[i] : i \in DOMAIN seq}

\* how many rows of a frame carry price p
CountPrice(frame, p) == Cardinality({i \in DOMAIN frame : frame[i].lmp_total = p})

PricesOf(frame) == {frame[i].lmp_total : i \in DOMAIN frame}

\* x is num/den rounded to an integer: no integer is nearer to num/den
NearestTo(x, num, den) ==
    LET d == x * den - num
    IN  2 * (IF d < 0 THEN -d ELSE d) <= den

\* a zone result has been returned
ZoneReturned == arb_pc = "returned" /\ results # <<>>

\* the frames of the _calculate_zone call that produced result r
FramesOf(r) ==
    locals[CHOOSE k \in DOMAIN locals : locals[k].zone_name = r.zone_name]

\* the series of r's zone as the feed gave it
SeriesOf(r) ==
    LET OfZone(row) == row.zone_name = r.zone_name
    IN  SelectSeq(lmp_df, OfZone)

\* the candidate rows that clear the gate, counted from the statement of the
\* gate: price * efficiency - mean(charge prices) > cycling_cost
StrictlyClears(f, row) ==
    LET cfg == client[1]
        nc  == Len(f.charge_df)
    IN  row.lmp_total * cfg.efficiency * nc
            - 100 * SumPrices(f.charge_df)
        > 100 * cfg.cycling_cost * nc

QualifyingCount(f) ==
    Cardinality({i \in DOMAIN f.candidate_df :
                    StrictlyClears(f, f.candidate_df[i])})

\* C1: charge_hours and discharge_hours are disjoint, and every discharge
\* hour clears the gate strictly.
C1_NonOverlapStrictGate ==
    ZoneReturned =>
        \A k \in DOMAIN results :
            LET r == results[k]
                f == FramesOf(r)
            IN  /\ SetOf(r.charge_hours) \cap SetOf(r.discharge_hours) = {}
                /\ \A i \in DOMAIN f.discharge_df :
                      StrictlyClears(f, f.discharge_df[i])

\* C2: when no candidate clears the gate, nothing is discharged, the
\* discharge price is 0, net profit is negative and the zone is not profitable.
C2_NoQualifierNotViable ==
    ZoneReturned =>
        \A k \in DOMAIN results :
            LET r == results[k]
            IN  QualifyingCount(FramesOf(r)) = 0 =>
                    /\ r.discharge_hours = <<>>
                    /\ r.discharge_price = 0
                    /\ r.net_profit_per_mwh < 0
                    /\ r.is_profitable = FALSE

\* the cycling costs the comparison of C3 ranges over
CostLadder == {c \in CostInputs : c >= 0} \cup {80}

\* the result of r's zone at cycling cost c, all else the same
AtCost(r, c) ==
    _calculate_zone([client[1] EXCEPT !.cycling_cost = c], r.zone_name,
                    FramesOf(r).df).result

\* C3: on the same frame and the same other settings, a higher cycling cost
\* gates out at least as many hours and discharges at most as many.
C3_GateMonotoneInCost ==
    ZoneReturned =>
        \A k \in DOMAIN results :
            \A c \in CostLadder :
                c >= client[1].cycling_cost =>
                    /\ AtCost(results[k], c).hours_gated_out
                          >= results[k].hours_gated_out
                    /\ AtCost(results[k], c).discharge_hours_used
                          <= results[k].discharge_hours_used

\* C3's case: some higher cost gates out strictly more hours
C3_Witness ==
    /\ ZoneReturned
    /\ \E k \in DOMAIN results :
          \E c \in CostLadder :
              /\ c > client[1].cycling_cost
              /\ AtCost(results[k], c).hours_gated_out
                    > results[k].hours_gated_out

\* C4: min(configured, max(1, n div 2)) charge hours are used, they are hours
\* of the series of lowest price, charge_price is their mean (to 4 decimals),
\* and never more than the configured number are used.
C4_ChargeSelection ==
    ZoneReturned =>
        \A k \in DOMAIN results :
            LET r      == results[k]
                f      == FramesOf(r)
                series == SeriesOf(r)
                n      == Len(series)
                half   == IF n \div 2 >= 1 THEN n \div 2 ELSE 1
                expect == IF client[1].n_charge <= half
                          THEN client[1].n_charge ELSE half
            IN  /\ n >= 1
                /\ r.hours_available = n
                /\ r.charge_hours_used = expect
                /\ Len(r.charge_hours) = expect
                /\ Len(f.charge_df) = expect
                /\ expect <= client[1].n_charge
                /\ r.charge_hours = Timestamps(f.charge_df)
                /\ \A row \in SetOf(series) :
                      Cardinality({i \in DOMAIN series : series[i] = row})
                        = Cardinality({i \in DOMAIN f.charge_df :
                                          f.charge_df[i] = row})
                          + Cardinality({i \in DOMAIN f.candidate_df :
                                          f.candidate_df[i] = row})
                /\ \A i \in DOMAIN f.charge_df :
                      \A j \in DOMAIN f.candidate_df :
                          f.candidate_df[j].lmp_total
                              >= f.charge_df[i].lmp_total
                /\ NearestTo(r.charge_price,
                             10000 * SumPrices(f.charge_df), expect)

\* C4's case: the configured count is cut to half the series, and a
\* candidate hour costs the same as a charge hour
C4_Witness ==
    /\ ZoneReturned
    /\ Len(lmp_df) = 4
    /\ Len(results) = 1
    /\ client[1].n_charge = 3
    /\ results[1].charge_hours_used = 2
    /\ locals[1].candidate_df[1].lmp_total = locals[1].charge_df[2].lmp_total

\* C5: min(configured n_discharge, number of qualifying hours) hours are
\* discharged, all of them qualifying, and no qualifying hour left out is
\* dearer than a discharged one.
C5_DischargeSelection ==
    ZoneReturned =>
        \A k \in DOMAIN results :
            LET r      == results[k]
                f      == FramesOf(r)
                expect == IF client[1].n_discharge <= QualifyingCount(f)
                          THEN client[1].n_discharge ELSE QualifyingCount(f)
                sel    == f.discharge_df
                qual   == {i \in DOMAIN f.candidate_df :
                              StrictlyClears(f, f.candidate_df[i])}
            IN  /\ r.discharge_hours_used = expect
                /\ Len(r.discharge_hours) = expect
                /\ r.discharge_hours = Timestamps(sel)
                /\ \A row \in SetOf(sel) :
                      Cardinality({i \in DOMAIN sel : sel[i] = row})
                        <= Cardinality({i \in qual : f.candidate_df[i] = row})
                /\ \A p \in PricesOf(f.candidate_df) :
                      (\E j \in DOMAIN sel : sel[j].lmp_total < p) =>
                          CountPrice(sel, p)
                            = Cardinality({i \in qual :
                                  f.candidate_df[i].lmp_total = p})

\* C5's case: more hours qualify than are discharged, at different prices
C5_Witness ==
    /\ ZoneReturned
    /\ \E k \in DOMAIN results :
          /\ results[k].discharge_hours_used >= 1
          /\ QualifyingCount(FramesOf(results[k]))
                > results[k].discharge_hours_used
          /\ Cardinality(PricesOf(FramesOf(results[k]).qualifying_df)) >= 2

\* C6: discharge_price = round(mean(discharge prices) * efficiency, 4) or 0,
\* gross_spread = discharge_price - charge_price, total_cycling_costs =
\* cycling_cost * |discharge_hours|, net_profit = gross_spread - cycling_cost,
\* is_profitable iff net_profit > 0; and the two worked scenarios.
C6_Metrics ==
    ZoneReturned =>
        \A k \in DOMAIN results :
            LET r   == results[k]
                f   == FramesOf(r)
                cfg == client[1]
                nd  == Len(r.discharge_hours)
            IN  /\ IF nd > 0
                   THEN NearestTo(r.discharge_price,
                            100 * SumPrices(f.discharge_df) * cfg.efficiency,
                            nd)
                   ELSE r.discharge_price = 0
                /\ r.daily_spread_per_mwh = r.discharge_price - r.charge_price
                /\ r.total_cycling_costs = 10000 * cfg.cycling_cost * nd
                /\ r.net_profit_per_mwh
                      = r.daily_spread_per_mwh - 10000 * cfg.cycling_cost
                /\ r.is_profitable = (r.net_profit_per_mwh > 0)
                /\ (lmp_df = ScenarioFrame
                      /\ cfg = Config(90, 4, 4, 5)) =>
                        /\ r.discharge_price = 900000
                        /\ r.daily_spread_per_mwh = 800000
                        /\ r.net_profit_per_mwh = 750000
                        /\ r.is_profitable = TRUE
                        /\ r.hours_gated_out = 0
                /\ (lmp_df = ScenarioFrame
                      /\ cfg = Config(90, 4, 4, 85)) =>
                        /\ r.discharge_price = 0
                        /\ r.daily_spread_per_mwh = -100000
                        /\ r.net_profit_per_mwh = -950000
                        /\ r.is_profitable = FALSE
                        /\ r.hours_gated_out = 4

\* C6's case: the second scenario has been computed
C6_Witness ==
    /\ ZoneReturned
    /\ lmp_df = ScenarioFrame
    /\ client[1] = Config(90, 4, 4, 85)
    /\ results[1].net_profit_per_mwh = -950000

\* C7: hours_gated_out = (n - n_charge) - |qualifying hours|, so the hours
\* split into charge, gated-out and qualifying hours, and the discharged hours
\* are at most the qualifying ones.
C7_GatedOutAccounting ==
    ZoneReturned =>
        \A k \in DOMAIN results :
            LET r == results[k]
                n == Len(SeriesOf(r))
                q == QualifyingCount(FramesOf(r))
            IN  /\ r.hours_gated_out = (n - r.charge_hours_used) - q
                /\ r.hours_available
                      = r.charge_hours_used + r.hours_gated_out + q
                /\ 0 <= r.hours_gated_out
                /\ r.hours_gated_out <= n - r.charge_hours_used
                /\ r.discharge_hours_used
                      <= (n - r.charge_hours_used) - r.hours_gated_out

\* C7's case: a candidate whose margin equals the cycling cost is gated out
\* while another candidate is discharged
C7_Witness ==
    /\ ZoneReturned
    /\ \E k \in DOMAIN results :
          /\ results[k].discharge_hours_used >= 1
          /\ \E i \in DOMAIN FramesOf(results[k]).candidate_df :
                LET f   == FramesOf(results[k])
                    row == f.candidate_df[i]
                    nc  == Len(f.charge_df)
                IN  row.lmp_total * client[1].efficiency * nc
                        - 100 * SumPrices(f.charge_df)
                      = 100 * client[1].cycling_cost * nc

ZoneIndexArb(zone) == CHOOSE i \in DOMAIN ArbZones : ArbZones[i] = zone

\* get_arbitrage returns one result per zone of the feed, the widest daily
\* spread first and zones of equal spread in ascending order of name.
ResultsBySpread ==
    ZoneReturned =>
        /\ {results[k].zone_name : k \in DOMAIN results}
              = {lmp_df[i].zone_name : i \in DOMAIN lmp_df}
        /\ Len(results) = Len(locals)
        /\ \A j, k \in DOMAIN results :
              j < k =>
                  \/ results[j].daily_spread_per_mwh
                        > results[k].daily_spread_per_mwh
                  \/ /\ results[j].daily_spread_per_mwh
                          = results[k].daily_spread_per_mwh
                     /\ ZoneIndexArb(results[j].zone_name)
                          < ZoneIndexArb(results[k].zone_name)

\* the zone that comes second by name is returned first
SecondZoneFirst ==
    /\ ZoneReturned
    /\ client[1] = Config(90, 1, 1, 5)
    /\ Len(results) = 2
    /\ results[1].zone_name = "BGE" /\ results[1].daily_spread_per_mwh = 800000
    /\ results[2].zone_name = "AEP" /\ results[2].daily_spread_per_mwh = 80000

\* the documented domains: efficiency in (0, 1], both hour counts >= 1,
\* cycling_cost >= 0
InDomain(cfg) ==
    /\ cfg.efficiency \in 1..100
    /\ cfg.n_charge >= 1
    /\ cfg.n_discharge >= 1
    /\ cfg.cycling_cost >= 0

\* C8: a configuration outside the domains makes the constructor raise, with
\* no client left and nothing fetched or computed; every configuration inside
\* them is accepted.
C8_ConstructorValidation ==
    arb_pc # "request" =>
        LET cfg == arb_request[2]
        IN  /\ http_error = "ValueError" =>
                  /\ ~InDomain(cfg)
                  /\ arb_pc = "raised"
                  /\ client = NoClient
                  /\ lmp_df = <<>> /\ locals = NoFrames /\ results = <<>>
            /\ http_error # "HTTP422" =>
                  /\ InDomain(cfg) => (client = <<cfg>> /\ http_error = "none")
                  /\ ~InDomain(cfg) => http_error = "ValueError"

\* C8's case: efficiency exactly 1.0 and cycling cost exactly 0 are accepted
C8_Witness ==
    /\ arb_pc = "constructed"
    /\ client = <<Config(100, 1, 1, 0)>>


\* the route answers 422 exactly for parameters outside its declared bounds
\* or refused by the checks of its body, constructs no client then, and never
\* lets the constructor raise
RouteAnswers422 ==
    (arb_pc # "request" /\ arb_request[1] = "route") =>
        LET cfg == arb_request[2]
            ok  == /\ arb_request[3] \in 4..168
                   /\ cfg.efficiency \in 50..99
                   /\ cfg.n_charge \in 1..12 /\ cfg.n_discharge \in 1..12
                   /\ cfg.cycling_cost >= 0
                   /\ cfg.n_charge + cfg.n_discharge <= 12
        IN  /\ http_error # "ValueError"
            /\ ~ok => http_error = "HTTP422" /\ client = NoClient
            /\ ok => http_error = "none" /\ client = <<cfg>>

\* no charge hour asked of the route: 422, and nothing constructed
RouteRefusesZeroHours ==
    /\ arb_pc = "raised"
    /\ arb_request = <<"route", Config(90, 0, 1, 5), 24>>
    /\ http_error = "HTTP422"

\* thirteen hours in all asked of the route: refused by its body
RouteRefusesThirteenHours ==
    /\ arb_pc = "raised"
    /\ arb_request = <<"route", Config(90, 6, 7, 5), 24>>
    /\ http_error = "HTTP422"

-----------------------------------------------------------------------------
(* Properties of the convergence specification *)

ConvReturned == conv_pc = "returned"

\* the hours a feed holds for the requested zone, whatever the letter case
FeedHours(feed, name) ==
    {feed[i].timestamp_ept :
        i \in {j \in DOMAIN feed :
                 Upper(feed[j].zone_name) = Upper(name)}}

RecordHours == {conv_result[1].records[i].hour
                  : i \in DOMAIN conv_result[1].records}

\* C9: the hours of the records are exactly the hours both feeds hold for the
\* zone, and the records are in ascending hour order.
C9_InnerJoinHours ==
    ConvReturned =>
        LET records == conv_result[1].records
        IN  /\ RecordHours
                  = FeedHours(conv_request[2], conv_request[1])
                      \cap FeedHours(conv_request[3], conv_request[1])
            /\ \A i \in DOMAIN records : \A j \in DOMAIN records :
                  i < j => records[i].hour <= records[j].hour

\* C9's case: DA holds hours {1,2,3}, RT holds {2,3,4}, the records are for
\* hours 2 and 3
C9_Witness ==
    /\ ConvReturned
    /\ FeedHours(conv_request[2], conv_request[1]) = {1, 2, 3}
    /\ FeedHours(conv_request[3], conv_request[1]) = {2, 3, 4}
    /\ Len(conv_result[1].records) = 2
    /\ conv_result[1].records[1].hour = 2
    /\ conv_result[1].records[2].hour = 3

\* C10: Scarcity iff spread > +50, Oversupply iff spread < -50, Normal
\* otherwise, on the spread rounded to 4 decimals; the summary counts are the
\* numbers of records with each flag, and total_hours the number of records.
C10_EventFlags ==
    ConvReturned =>
        LET result  == conv_result[1]
            records == result.records
            name    == conv_request[1]
        IN  /\ \A i \in DOMAIN records :
                  LET r == records[i]
                  IN  /\ r.event_flag = "Scarcity" <=> r.spread > 500000
                      /\ r.event_flag = "Oversupply" <=> r.spread < -500000
                      /\ r.event_flag = "Normal"
                            <=> (r.spread >= -500000 /\ r.spread <= 500000)
                      /\ \E d \in DOMAIN conv_request[2] :
                            \E t \in DOMAIN conv_request[3] :
                               LET da == conv_request[2][d]
                                   rt == conv_request[3][t]
                                   exact == rt.rt_price - da.da_price
                               IN  /\ Upper(da.zone_name) = Upper(name)
                                   /\ Upper(rt.zone_name) = Upper(name)
                                   /\ da.timestamp_ept = r.hour
                                   /\ rt.timestamp_ept = r.hour
                                   /\ 10 * r.spread - exact <= 5
                                   /\ exact - 10 * r.spread <= 5
            /\ result.scarcity_hours
                  = Cardinality({i \in DOMAIN records :
                                    records[i].event_flag = "Scarcity"})
            /\ result.oversupply_hours
                  = Cardinality({i \in DOMAIN records :
                                    records[i].event_flag = "Oversupply"})
            /\ result.total_hours = Len(records)

\* C10's case: a spread of exactly +50.0 (from 49.99996 unrounded) is Normal
\* next to a spread of -50.0001 flagged Oversupply
C10_Witness ==
    /\ ConvReturned
    /\ Len(conv_result[1].records) = 2
    /\ conv_request[2][1].da_price = 1000004
    /\ conv_request[3][1].rt_price = 6000000
    /\ conv_result[1].records[1].spread = 500000
    /\ conv_result[1].records[1].event_flag = "Normal"
    /\ conv_result[1].records[2].spread = -500001
    /\ conv_result[1].records[2].event_flag = "Oversupply"
    /\ conv_result[1].oversupply_hours = 1

\* hours of the result whose spread is below / above zero
HoursBelow == Cardinality({i \in DOMAIN conv_result[1].records :
                             conv_result[1].records[i].spread < 0})
HoursAbove == Cardinality({i \in DOMAIN conv_result[1].records :
                             conv_result[1].records[i].spread > 0})

\* C11: VIRTUAL_SELLER iff more than 60% of the aligned hours have spread < 0,
\* otherwise VIRTUAL_BUYER iff more than 60% have spread > 0, otherwise MIXED;
\* exactly 60% is MIXED, zero spreads count for neither side, both signals
\* never apply together, and no aligned hours gives MIXED with the neutral text.
C11_NarrativeSignal ==
    ConvReturned =>
        LET result == conv_result[1]
            n      == Len(result.records)
            seller == n > 0 /\ 5 * HoursBelow > 3 * n
            buyer  == n > 0 /\ 5 * HoursAbove > 3 * n
        IN  /\ result.dominant_signal = "VIRTUAL_SELLER" <=> seller
            /\ result.dominant_signal = "VIRTUAL_BUYER" <=> (~seller /\ buyer)
            /\ result.dominant_signal = "MIXED" <=> (~seller /\ ~buyer)
            /\ ~(seller /\ buyer)
            /\ result.market_narrative
                  = (IF seller THEN NARRATIVE_VIRTUAL_SELLER
                     ELSE IF buyer THEN NARRATIVE_VIRTUAL_BUYER
                     ELSE NARRATIVE_MIXED)
            /\ n = 0 => /\ result.dominant_signal = "MIXED"
                        /\ result.market_narrative = NARRATIVE_MIXED

\* C11's case: 3 of 5 aligned hours (exactly 60%) have a negative spread, one
\* has a zero spread, and the signal is MIXED
C11_Witness ==
    /\ ConvReturned
    /\ Len(conv_result[1].records) = 5
    /\ HoursBelow = 3
    /\ HoursAbove = 1
    /\ conv_result[1].dominant_signal = "MIXED"

-----------------------------------------------------------------------------
(* Properties of the resource-gap specification *)

GapReturned(what) ==
    /\ gap_pc = "returned"
    /\ gap_request[1] = what

\* s is a rounding to the nearest integer of
\* 1 + 9 * min((0.70 * deficit/peak + 0.30 * retiring/peak) / 0.30, 1),
\* the deficit in 0.1 MW
RoundsRawScore(s, deficit, peak, retiring) ==
    LET num == 10 * peak + Min2(3 * (7 * deficit + 30 * retiring), 90 * peak)
        den == 10 * peak
    IN  2 * Abs(s * den - num) <= den

\* risk_index >= 0.30, the deficit in 0.1 MW:
\* 0.70 * max(0, deficit/10)/peak + 0.30 * retiring/peak >= 0.30
Saturates(deficit, peak, retiring) ==
    7 * Max2(0, deficit) + 30 * retiring >= 30 * peak

\* C12: the score is an integer in 1..10; it is 1 when the deficit and the
\* retirements are zero; it is 10 whenever 0.70 * max(0, deficit)/peak
\* + 0.30 * retiring/peak >= 0.30; a negative deficit scores as a zero deficit
\* does; and the score does not decrease when the deficit grows.
C12_ScoreClamp ==
    /\ GapReturned("_reliability_score") =>
          LET d1       == gap_request[2]
              d2       == gap_request[3]
              peak     == gap_request[4]
              retiring == gap_request[5]
              s1       == gap_response[1]
              s2       == gap_response[2]
          IN  /\ s1 \in 1..10 /\ s2 \in 1..10
              /\ (d1 = 0 /\ retiring = 0) => s1 = 1
              /\ (d2 = 0 /\ retiring = 0) => s2 = 1
              /\ Saturates(d1, peak, retiring) => s1 = 10
              /\ Saturates(d2, peak, retiring) => s2 = 10
              /\ d1 < 0 => RoundsRawScore(s1, 0, peak, retiring)
              /\ d2 < 0 => RoundsRawScore(s2, 0, peak, retiring)
              /\ (d1 < 0 /\ d2 <= 0) => s1 = s2
              /\ s1 <= s2
    /\ (GapReturned("GET /api/resource-gap") /\ gap_response.status = 200) =>
          \A i \in DOMAIN gap_response.data :
             gap_response.data[i].reliability_score \in 1..10

\* C12's case: a surplus of 2000 MW scores 3 on the retirements alone, as a
\* zero deficit would; a larger deficit raises the score to 10
C12_Witness ==
    /\ GapReturned("_reliability_score")
    /\ gap_request[2] = -20000
    /\ gap_request[3] = 33430
    /\ gap_request[4] = 7800
    /\ gap_request[5] = 1816
    /\ gap_response = <<3, 10>>

\* the deficit alone carries the index over 0.30: 3343 MW against a peak of
\* 7800 MW with nothing retiring (0.70 * 3343 / 7800 = 0.30001) scores 10
SaturatedByDeficitAlone ==
    /\ GapReturned("_reliability_score")
    /\ gap_request[3] = 33430
    /\ gap_request[4] = 7800
    /\ gap_request[5] = 0
    /\ Saturates(gap_request[3], gap_request[4], gap_request[5])
    /\ ~Saturates(33420, gap_request[4], gap_request[5])
    /\ gap_response[2] = 10

\* the index is exactly 0.30: 1800 MW retiring against a peak of 1800 MW
\* with a surplus scores 10
SaturatedAtThreshold ==
    /\ GapReturned("_reliability_score")
    /\ gap_request[2] = -5
    /\ gap_request[4] = 1800
    /\ gap_request[5] = 1800
    /\ gap_response[1] = 10

\* the band the score table gives a score
BandOf(score) ==
    CASE score \in 9..10 -> "CRITICAL"
      [] score \in 7..8  -> "HIGH"
      [] score \in 5..6  -> "MODERATE"
      [] score \in 3..4  -> "LOW"
      [] score \in 1..2  -> "MINIMAL"

\* the text `signal` is the template of the score's band, and it names the
\* magnitude of the deficit (0.1 MW, shown in whole MW) and the first of the
\* key retirements, or the generic phrase when there are none
SignalAsDescribed(signal, score, deficit, key_retirements) ==
    /\ signal.template = BandOf(score)
    /\ signal.amount = [sign |-> "", mw |-> RoundHalfEven(Abs(deficit), 10)]
    /\ signal.lead = <<IF key_retirements = <<>> THEN "major coal retirements"
                       ELSE key_retirements[1]>>

\* C13: the template is chosen by the score band alone (9-10 CRITICAL, 7-8
\* HIGH, 5-6 MODERATE, 3-4 LOW, 1-2 MINIMAL), and the text carries the
\* magnitude of the zone's deficit and the first key retirement (a generic
\* phrase when the list is empty).
C13_SignalByBand ==
    /\ GapReturned("_investment_signal") =>
          SignalAsDescribed(gap_response[1], gap_request[3], gap_request[4],
                            gap_request[6])
    /\ (GapReturned("GET /api/resource-gap") /\ gap_response.status = 200) =>
          \A i \in DOMAIN gap_response.data :
             LET r == gap_response.data[i]
             IN  SignalAsDescribed(r.investment_signal, r.reliability_score,
                                   r.retirement_deficit_mw, r.key_retirements)

\* the records of a served /api/resource-gap request
GapRecords ==
    IF GapReturned("GET /api/resource-gap") /\ gap_response.status = 200
    THEN {gap_response.data[i] : i \in DOMAIN gap_response.data}
    ELSE {}

\* C30: for every zone and every queue_success_rate in (0, 1] the wording of
\* the investment signal agrees with the sign of the deficit: the MINIMAL
\* text (a surplus of |deficit| MW) only when retirement_deficit_mw <= 0, the
\* CRITICAL, HIGH, MODERATE and LOW texts (a shortfall or gap of deficit MW)
\* only when retirement_deficit_mw > 0
C30_WordingMatchesSign ==
    \A r \in GapRecords :
       /\ r.investment_signal.template = "MINIMAL" =>
             r.retirement_deficit_mw <= 0
       /\ r.investment_signal.template
             \in {"CRITICAL", "HIGH", "MODERATE", "LOW"} =>
                r.retirement_deficit_mw > 0

\* a record reports a surplus for a zone whose deficit is positive
SurplusTextOnDeficit ==
    \E r \in GapRecords :
       /\ r.investment_signal.template = "MINIMAL"
       /\ r.retirement_deficit_mw > 0

\* a record reports a gap for a zone whose deficit is negative
GapTextOnSurplus ==
    \E r \in GapRecords :
       /\ r.investment_signal.template # "MINIMAL"
       /\ r.retirement_deficit_mw < 0
-----------------------------------------------------------------------------
(* Properties of the marginal-fuel specification *)

\* the request was answered with records
FuelServed(call) == call # <<>> /\ call[1].status = 200

\* what the determinism statement compares: per zone the timeline, the
\* current fuel and the signal strength
Snapshot(data) ==
    [i \in DOMAIN data |->
        [zone            |-> data[i].zone,
         timeline_24h    |-> data[i].timeline_24h,
         current_fuel    |-> data[i].current_fuel,
         signal_strength |-> data[i].signal_strength]]

\* C14: two calls with the same zone and the same calendar date give the
\* same 24-hour timeline, the same current_fuel and the same signal_strength,
\* at whatever hours of that date the calls are made.
C14_SameDateSameResult ==
    (/\ FuelServed(fuel_prev) /\ FuelServed(fuel_call)
     /\ fuel_prev[1].zone = fuel_call[1].zone
     /\ fuel_prev[1].date = fuel_call[1].date)
    => Snapshot(fuel_prev[1].data) = Snapshot(fuel_call[1].data)

\* C15: every timeline has 24 entries, hours 0, 1, ..., 23 in that order,
\* each fuel one of the seven fuels of the weight table, and no Solar before
\* hour 7 or from hour 20 on, for every zone and every seed.
C15_TimelineShape ==
    FuelServed(fuel_call) =>
       \A i \in DOMAIN fuel_call[1].data :
          LET timeline == fuel_call[1].data[i].timeline_24h
          IN  /\ Len(timeline) = 24
              /\ \A h \in 0..23 :
                    /\ timeline[h + 1].hour = h
                    /\ timeline[h + 1].fuel_type \in
                          {"Nuclear", "Coal", "Wind", "Gas-CC", "Hydro",
                           "Gas-CT", "Solar"}
                    /\ (h < 7 \/ h >= 20) =>
                          timeline[h + 1].fuel_type # "Solar"

\* C15's case: DPL multiplies Solar by 1.4; its timeline has Solar at hour 7,
\* the first hour of the window, and at hour 19, the last, and nowhere
\* outside the window
C15_Witness ==
    /\ FuelServed(fuel_call)
    /\ fuel_call[1].zone = "DPL"
    /\ fuel_call[1].data[1].timeline_24h[8].fuel_type = "Solar"
    /\ fuel_call[1].data[1].timeline_24h[20].fuel_type = "Solar"
    /\ fuel_call[1].locals[1].weights[7][7] = <<"Solar", 0>>

\* the weight (0.01) of a fuel in a list of weights
WeightOf(weights, fuel) ==
    weights[CHOOSE i \in DOMAIN weights : weights[i][1] = fuel][2]

\* the weights of an hour before persistence: the table, the bias of the zone
\* and the solar suppression
Unboosted(zone, hour) ==
    SuppressSolar(ApplyBias(_base_hour_weights(hour),
                            IF zone \in DOMAIN _ZONE_BIAS
                            THEN _ZONE_BIAS[zone] ELSE <<>>), hour)

\* C16: hour 0 is drawn without boost; at each hour h >= 1 the weight of the
\* fuel drawn at hour h - 1 is doubled, after bias and solar suppression and
\* only when positive, and no other weight is changed; the fuel drawn at
\* every hour has a strictly positive weight.
C16_SequentialPersistence ==
    FuelServed(fuel_call) =>
       \A i \in DOMAIN fuel_call[1].data :
          LET zone     == fuel_call[1].data[i].zone
              timeline == fuel_call[1].data[i].timeline_24h
              weights  == fuel_call[1].locals[i].weights
          IN  /\ weights[1] = Unboosted(zone, 0)
              /\ \A h \in 1..23 : \A k \in 1..7 :
                    LET before == Unboosted(zone, h)[k]
                    IN  weights[h + 1][k] =
                          IF /\ before[1] = timeline[h].fuel_type
                             /\ before[2] > 0
                          THEN <<before[1], 2 * before[2]>>
                          ELSE before
              /\ \A h \in 0..23 :
                    WeightOf(weights[h + 1], timeline[h + 1].fuel_type) > 0

\* C16's case: Solar is drawn at hour 19, and at hour 20 its weight is zero
\* and stays zero; at an earlier hour the fuel of the hour before was boosted
\* and another fuel drawn
C16_Witness ==
    /\ FuelServed(fuel_call)
    /\ fuel_call[1].zone = "DPL"
    /\ LET timeline == fuel_call[1].data[1].timeline_24h
           weights  == fuel_call[1].locals[1].weights
       IN  /\ timeline[20].fuel_type = "Solar"
           /\ weights[21] = Unboosted("DPL", 20)
           /\ \E h \in 1..19 :
                 /\ timeline[h].fuel_type # timeline[h + 1].fuel_type
                 /\ WeightOf(weights[h + 1], timeline[h].fuel_type)
                       = 2 * WeightOf(Unboosted("DPL", h), timeline[h].fuel_type)

\* the hours h + step, h + 2 step, ... (at most `reach` of them, none outside
\* 0..23) that carry `fuel` without a break
RunLength(timeline, fuel, h, step, reach) ==
    LET Unbroken(n) == \A j \in 1..n :
                          /\ h + j * step \in 0..23
                          /\ timeline[h + j * step + 1].fuel_type = fuel
    IN  CHOOSE n \in 0..reach :
           /\ Unbroken(n)
           /\ n < reach => ~Unbroken(n + 1)

\* C17: the signal is base + bonus clamped to at most 100; base lies in the
\* band of the current fuel; bonus = min(3 * consecutive, 15), consecutive
\* counting the current hour and the unbroken run of the current fuel up to 3
\* hours back and up to 3 hours ahead, never past hour 0 or hour 23; the
\* result is in 0..100.
C17_SignalStrength ==
    FuelServed(fuel_call) =>
       \A i \in DOMAIN fuel_call[1].data :
          LET r        == fuel_call[1].data[i]
              l        == fuel_call[1].locals[i]
              hour     == fuel_call[1].hour
              band     == _SIGNAL_RANGES[r.current_fuel]
          IN  /\ r.current_fuel = r.timeline_24h[hour + 1].fuel_type
              /\ l.base \in band[1]..band[2]
              /\ l.consecutive =
                    1 + RunLength(r.timeline_24h, r.current_fuel, hour, -1, 3)
                      + RunLength(r.timeline_24h, r.current_fuel, hour, 1, 3)
              /\ l.stability_bonus = Min2(3 * l.consecutive, 15)
              /\ r.signal_strength = Min2(100, l.base + l.stability_bonus)
              /\ r.signal_strength \in 0..100

\* C17's case: a call at hour 0 of a day whose hour 23 carries the fuel of
\* hour 0, then a call at hour 3 of that day where base + bonus passes 100
\* and the signal is 100
C17_Witness ==
    /\ FuelServed(fuel_prev) /\ FuelServed(fuel_call)
    /\ fuel_prev[1].hour = 0 /\ fuel_call[1].hour = 3
    /\ fuel_prev[1].data[1].timeline_24h[24].fuel_type
          = fuel_prev[1].data[1].current_fuel
    /\ LET r == fuel_call[1].data[1]
           l == fuel_call[1].locals[1]
       IN  /\ l.consecutive >= 4
           /\ l.base + l.stability_bonus > 100
           /\ r.signal_strength = 100
-----------------------------------------------------------------------------
(* Properties of the two zone-filtered routes *)

\* the zone a filter names when the case of its letters is ignored
ZoneNamed(filter) ==
    CASE filter \in {"BGE", "bge"}        -> "BGE"
      [] filter \in {"DPL", "Dpl", "dpl"} -> "DPL"
      [] filter \in {"OVEC", "ovec"}      -> "OVEC"
      [] OTHER                            -> filter

\* what a route answers to a zone filter, given the zones its client knows:
\* 404 and no record when the filter names none of them, else 200 with the
\* record of the zone named
AnswersFilter(filter, known, status, data) ==
    /\ (filter # "" /\ ZoneNamed(filter) \notin known) =>
          status = 404 /\ data = <<>>
    /\ (filter # "" /\ ZoneNamed(filter) \in known) =>
          /\ status = 200
          /\ Len(data) = 1
          /\ data[1].zone = ZoneNamed(filter)
    /\ filter = "" => status = 200 /\ Len(data) = Cardinality(known)

\* C18: for a zone the client does not know, MarginalFuelClient and
\* ResourceGapClient return the empty list instead of raising, the match
\* ignoring case; the route turns the empty list of an explicit zone into
\* 404, which is not the 422 of an invalid parameter.
C18_UnknownZone ==
    /\ fuel_call # <<>> =>
          AnswersFilter(fuel_call[1].zone, SetOf(ALL_ZONES),
                        fuel_call[1].status, fuel_call[1].data)
    /\ GapReturned("GET /api/resource-gap") =>
          LET in_range == gap_request[3] > 0 /\ gap_request[3] <= 1000
          IN  /\ gap_response.status = 422 <=> ~in_range
              /\ in_range =>
                    AnswersFilter(gap_request[2], DOMAIN _ZONE_PROFILES,
                                  gap_response.status, gap_response.data)

\* C18's case: "dpl" found by the marginal-fuel route, then "XYZ" answered
\* 404; OVEC, which the marginal-fuel client knows, answered 404 by the
\* resource-gap route
C18_Witness ==
    /\ fuel_prev # <<>> /\ fuel_call # <<>>
    /\ fuel_prev[1].zone = "dpl" /\ fuel_prev[1].status = 200
    /\ fuel_call[1].zone = "XYZ" /\ fuel_call[1].status = 404
    /\ GapReturned("GET /api/resource-gap")
    /\ gap_request[2] = "OVEC"
    /\ gap_request[3] = QUEUE_SUCCESS_RATE
    /\ gap_response.status = 404
-----------------------------------------------------------------------------
(* Properties of the weather specification *)

\* C19: an hour is Heat Stress iff temp_f > 90, Cold Snap iff temp_f < 20
\* and Normal otherwise, so 90.00 and 20.00 are Normal, 90.01 is Heat Stress
\* and 19.99 is Cold Snap; heat_hours and cold_hours count the records with
\* the alert, and total_hours counts the records.
C19_AlertThresholds ==
    wx_result # <<>> =>
       LET records == wx_result[1].records
           Hours(which) == {i \in DOMAIN records :
                              records[i].weather_alert = which}
       IN  /\ \A i \in DOMAIN records :
                 records[i].weather_alert =
                    IF records[i].temperature_f > 9000 THEN "Heat Stress"
                    ELSE IF records[i].temperature_f < 2000 THEN "Cold Snap"
                    ELSE "Normal"
           /\ wx_result[1].heat_hours = Cardinality(Hours("Heat Stress"))
           /\ wx_result[1].cold_hours = Cardinality(Hours("Cold Snap"))
           /\ wx_result[1].total_hours = Len(records)

\* C19's case: four hours at 19.99, 20.00, 90.00 and 90.01 degrees
C19_Witness ==
    /\ wx_result # <<>>
    /\ Len(wx_result[1].records) = 4
    /\ [i \in 1..4 |-> wx_result[1].records[i].temperature_f]
          = <<1999, 2000, 9000, 9001>>
    /\ [i \in 1..4 |-> wx_result[1].records[i].weather_alert]
          = <<"Cold Snap", "Normal", "Normal", "Heat Stress">>
    /\ wx_result[1].heat_hours = 1
    /\ wx_result[1].cold_hours = 1
    /\ wx_result[1].total_hours = 4

\* get_weather names in its result the station _resolve_station returned to
\* it, and by then the cache holds a station; a call that found the cache
\* filled sent no gridpoints request
WeatherCachesStation ==
    /\ wx_request # <<>> =>
          /\ _station_cache # <<>>
          /\ wx_result[1].station_id = wx_request[2]
          /\ \E t \in StationThreads :
                /\ st_returned[t] # <<>>
                /\ st_returned[t][Len(st_returned[t])] = wx_request[2]
    /\ st_lookups <= NumThreads

\* the result names a station other than the cached one: another thread
\* wrote the cache after this call's lookup
ResultStationNotCached ==
    /\ wx_request # <<>>
    /\ _station_cache # <<wx_request[2]>>
    /\ st_lookups = 2

\* the gridpoints request gave a station other than the fallback
StationLookedUp ==
    /\ wx_request # <<>>
    /\ st_lookups = 1
    /\ wx_result[1].station_id = "KPNE"

\* the station came from the cache
StationFromCache ==
    /\ wx_request # <<>>
    /\ st_lookups = 0
    /\ wx_result[1].station_id = "KPNE"

\* the load a frame has for an hour, 0 when it has none
LoadAt(frame, hour, column) ==
    IF \E k \in DOMAIN frame : frame[k].hour_ept = hour
    THEN frame[CHOOSE k \in DOMAIN frame : frame[k].hour_ept = hour][column]
    ELSE 0

\* C20: every observation hour gives exactly one record, with or without
\* load for it; a missing actual or forecast load is 0.0; load_delta_pct is
\* (actual - forecast) / forecast * 100 rounded to 2 decimals when
\* forecast > 0 and 0.0 when forecast <= 0.
C20_LeftJoin ==
    wx_result # <<>> =>
       LET obs_df      == wx_request[3]
           actual_df   == wx_request[4]
           forecast_df == wx_request[5]
           records     == wx_result[1].records
       IN  /\ Len(records) = Len(obs_df)
           /\ \A i \in DOMAIN records :
                 LET r        == records[i]
                     actual   == LoadAt(actual_df, obs_df[i].hour_ept,
                                        "actual_mw")
                     forecast == LoadAt(forecast_df, obs_df[i].hour_ept,
                                        "forecast_mw")
                 IN  /\ r.timestamp = obs_df[i].hour_ept
                     /\ r.temperature_f = obs_df[i].temp_f
                     /\ r.actual_load_mw = actual
                     /\ r.load_forecast_mw = forecast
                     /\ forecast > 0 =>
                           2 * Abs(r.load_delta_pct * forecast
                                   - 10000 * (actual - forecast)) <= forecast
                     /\ forecast <= 0 => r.load_delta_pct = 0

\* C20's case: four observation hours, actual load for hour 1 only and a
\* forecast for hours 1 to 3: hour 1 is 23.45 percent over its forecast,
\* hour 2 has no actual load and is 100 percent under, hour 4 has neither
C20_Witness ==
    /\ wx_result # <<>>
    /\ Len(wx_request[3]) = 4
    /\ Len(wx_request[4]) = 1
    /\ Len(wx_request[5]) = 3
    /\ LET records == wx_result[1].records
       IN  /\ Len(records) = 4
           /\ records[1].load_delta_pct = 2345
           /\ records[2].actual_load_mw = 0
           /\ records[2].load_delta_pct = -10000
           /\ records[4].load_forecast_mw = 0
           /\ records[4].load_delta_pct = 0
-----------------------------------------------------------------------------
(* Properties of the normalizer specification *)

NormReturned(which) ==
    /\ norm_request # <<>>
    /\ norm_request[1] = which
    /\ norm_response.status = "returned"

\* C21: the derived energy component satisfies
\* |energy + congestion + loss - total| <= 1e-4 in the frame of
\* LMPClient._parse and in the records of _normalize_lmp_items, where total,
\* congestion and loss are themselves rounded to 6 decimals.
C21_DecompositionIdentity ==
    /\ NormReturned("_parse") =>
          \A i \in DOMAIN norm_response.rows :
             LET r == norm_response.rows[i]
             IN  Abs(10 * r.energy_component + r.congestion_component
                       + r.loss_component - r.lmp_total) <= 1000
    /\ NormReturned("_normalize_lmp_items") =>
          \A i \in DOMAIN norm_response.rows :
             LET r == norm_response.rows[i]
             IN  Abs(r.energy_component + r.congestion_component
                       + r.loss_component - r.lmp_total) <= 100

\* C21's case: 30.1234567 - 1.5000005 - 0.4999995 reported as 30.123457,
\* 1.500001, 0.500000 and 28.123457, which add up to 1e-6 more than the total
C21_Witness ==
    /\ NormReturned("_normalize_lmp_items")
    /\ Len(norm_response.rows) >= 1
    /\ LET r == norm_response.rows[1]
       IN  /\ r.lmp_total = 30123457
           /\ r.energy_component = 28123457
           /\ r.energy_component + r.congestion_component + r.loss_component
                 - r.lmp_total = 1

\* C22: neither normalizer fails on a row whose total, congestion or loss is
\* missing, null or not a number: the field becomes 0.0 and the row still
\* gives a record.
C22_CoercesBadField ==
    norm_request # <<>> =>
       /\ norm_response.status = "returned"
       /\ Len(norm_response.rows) = Len(norm_request[2])
       /\ \A i \in DOMAIN norm_response.rows :
             LET item == norm_request[2][i]
                 r    == norm_response.rows[i]
             IN  /\ item.total_lmp_rt.kind # "number" => r.lmp_total = 0
                 /\ item.congestion_price_rt.kind # "number" =>
                       r.congestion_component = 0
                 /\ item.marginal_loss_price_rt.kind # "number" =>
                       r.loss_component = 0

\* C23: the frame of LMPClient._parse has at most one row per (zone, hour)
\* even when the feed repeats an hour, its rows are in ascending hour order
\* within each zone, and every row is for an hour of the feed.
C23_OneRowPerZoneHour ==
    NormReturned("_parse") =>
       LET rows == norm_response.rows
       IN  /\ \A i, j \in DOMAIN rows :
                 (/\ rows[i].zone_name = rows[j].zone_name
                  /\ rows[i].timestamp_ept = rows[j].timestamp_ept) => i = j
           /\ \A i, j \in DOMAIN rows :
                 (i < j /\ rows[i].zone_name = rows[j].zone_name) =>
                    rows[i].timestamp_ept <= rows[j].timestamp_ept
           /\ \A i \in DOMAIN rows :
                 \E k \in DOMAIN norm_request[2] :
                    /\ norm_request[2][k].pnode_name = rows[i].zone_name
                    /\ norm_request[2][k].datetime_beginning_ept
                          = rows[i].timestamp_ept
-----------------------------------------------------------------------------
(* Properties of the spark-spread specification *)

\* the request was turned down for its parameters: the constructor's
\* ValueError on a direct call, the 422 of the route
SparkRejected ==
    \/ spark_request[1] = "direct" /\ spark_response.status = "ValueError"
    \/ spark_request[1] = "route" /\ spark_response.status = 422

\* C24: a spark-spread request, through the route or through the client, is
\* rejected with no table computed when heat_rate is outside [5.0, 15.0] or
\* gas_price outside [0.50, 20.00], and is accepted when both are inside,
\* the boundary values included
C24_DomainValidation ==
    spark_request # <<>> =>
       LET heat_rate == spark_request[2]
           gas_price == spark_request[3]
           inside == /\ 50 <= heat_rate /\ heat_rate <= 150
                     /\ 50 <= gas_price /\ gas_price <= 2000
       IN  /\ inside => ~SparkRejected
           /\ ~inside => SparkRejected /\ spark_response.data = <<>>

\* the requests that come through the route are held to both domains
RouteEnforcesDomains ==
    (spark_request # <<>> /\ spark_request[1] = "route") =>
       LET heat_rate == spark_request[2]
           gas_price == spark_request[3]
           inside == /\ 50 <= heat_rate /\ heat_rate <= 150
                     /\ 50 <= gas_price /\ gas_price <= 2000
       IN  /\ inside => ~SparkRejected
           /\ ~inside => SparkRejected /\ spark_response.data = <<>>
-----------------------------------------------------------------------------
(* Properties of the engines on an empty series *)

\* the hours of a zone's rows in a feed
HoursOfZone(feed, zone) ==
    {feed[i].timestamp_ept :
        i \in {j \in DOMAIN feed :
                 ZoneNamed(feed[j].zone_name) = ZoneNamed(zone)}}

\* the convergence call had no hour priced in both feeds for its zone: a feed
\* was empty, or the feeds share no hour of the zone
NoAlignedHour ==
    /\ conv_pc = "returned"
    /\ HoursOfZone(conv_request[2], conv_request[1])
          \cap HoursOfZone(conv_request[3], conv_request[1]) = {}

\* the client was constructed and its snapshot came back empty
EmptySnapshot ==
    /\ spark_request # <<>>
    /\ spark_request[5] = <<>>
    /\ spark_request[2] > 0 /\ spark_request[3] >= 0
    /\ spark_request[1] = "route" =>
          /\ 50 <= spark_request[2] /\ spark_request[2] <= 150
          /\ 50 <= spark_request[3] /\ spark_request[3] <= 2000

\* C25: an empty series is not an error.  get_arbitrage on an empty LMP frame
\* returns the empty list and raises nothing; the spark-spread client returns
\* an empty table for an empty snapshot; convergence with an empty feed or no
\* hour in both feeds returns no records, zero spreads and counts and the
\* signal MIXED; weather with no observation returns no records and a zeroed
\* summary
C25_EmptyInputNotAnError ==
    /\ (arb_pc = "returned" /\ lmp_df = <<>>) =>
          results = <<>> /\ http_error = "none"
    /\ EmptySnapshot =>
          /\ spark_response.data = <<>>
          /\ spark_request[1] = "direct" => spark_response.status = "returned"
          /\ spark_request[1] = "route" =>
                /\ spark_response.status = 200
                /\ spark_response.summary.total_zones = 0
                /\ spark_response.summary.profitable_zones = 0
                /\ spark_response.summary.avg_spark_spread = 0
    /\ NoAlignedHour =>
          /\ conv_result[1].records = <<>>
          /\ conv_result[1].avg_spread = 0
          /\ conv_result[1].max_spread = 0
          /\ conv_result[1].min_spread = 0
          /\ conv_result[1].scarcity_hours = 0
          /\ conv_result[1].oversupply_hours = 0
          /\ conv_result[1].total_hours = 0
          /\ conv_result[1].dominant_signal = "MIXED"
    /\ (wx_request # <<>> /\ wx_request[3] = <<>>) =>
          /\ wx_result[1].records = <<>>
          /\ wx_result[1].avg_temp_f = 0
          /\ wx_result[1].max_temp_f = 0
          /\ wx_result[1].min_temp_f = 0
          /\ wx_result[1].heat_hours = 0
          /\ wx_result[1].cold_hours = 0
          /\ wx_result[1].total_hours = 0

\* a convergence call whose feeds are both non-empty but share no hour of
\* the zone has returned
C25_Witness ==
    /\ NoAlignedHour
    /\ conv_request[2] # <<>> /\ conv_request[3] # <<>>
    /\ HoursOfZone(conv_request[2], conv_request[1]) # {}
    /\ HoursOfZone(conv_request[3], conv_request[1]) # {}

\* get_arbitrage has returned from an empty frame
EmptyArbitrageServed == arb_pc = "returned" /\ lmp_df = <<>>

\* a convergence call with an empty feed has returned
EmptyFeedServed ==
    conv_pc = "returned" /\ (conv_request[2] = <<>> \/ conv_request[3] = <<>>)

\* a weather call with no observation has returned
EmptyObservationsServed == wx_request # <<>> /\ wx_request[3] = <<>>
-----------------------------------------------------------------------------
(* Properties of the subscription-key specification *)

\* the tasks whose settings request is in flight
Fetching == {t \in KeyTasks : key_pc[t] = "fetching"}

\* at most one settings request is in flight and at most one ever stored a key
OneFetch ==
    /\ Cardinality(Fetching) <= 1
    /\ key_successes <= 1

\* a step taken with a key cached sends no request, keeps the key, and a call
\* that completes in it returns that key
CachedKeyServed ==
    _subscription_key # "" =>
       /\ key_fetches' = key_fetches
       /\ _subscription_key' = _subscription_key
       /\ \A t \in KeyTasks :
             key_calls'[t] # key_calls[t] =>
                key_outcome'[t] = [status |-> "returned",
                                   key    |-> _subscription_key]

\* a step in which a settings request fails leaves the key unset, raises 502
\* in the task that sent it, changes no other task and leaves the lock free
FailedFetchIsLocal ==
    \A t \in KeyTasks :
       (key_pc[t] = "fetching" /\ key_pc'[t] = "raised") =>
          /\ _subscription_key' = "" /\ _subscription_key = ""
          /\ key_outcome'[t].status = "HTTP502"
          /\ ~key_lock'.locked
          /\ \A u \in KeyTasks \ {t} :
                key_pc'[u] = key_pc[u] /\ key_outcome'[u] = key_outcome[u]

\* C26: under every interleaving of the callers at most one settings request
\* is in flight and at most one ever succeeds; once a key is cached every
\* later call returns it without a request; a failed request leaves the key
\* unset, raises 502 to its caller only and releases the lock
C26_KeyFetchedOnce ==
    /\ []OneFetch
    /\ [][CachedKeyServed /\ FailedFetchIsLocal]_vars

\* a request failed while another task waited for the lock, that task then
\* fetched the key, and a third call was served from the cache
C26_Witness ==
    /\ _subscription_key # ""
    /\ key_fetches >= 2
    /\ key_successes = 1
    /\ \E t \in KeyTasks : key_outcome[t].status = "HTTP502"
    /\ \E t \in KeyTasks :
          /\ key_outcome[t] = [status |-> "returned", key |-> _subscription_key]
          /\ key_calls[t] = 2
-----------------------------------------------------------------------------
(* Properties of the retry specification *)

\* the requests for the url the call has sent, in order
UrlRequests ==
    LET IsGet(event) == event.op = "get" IN SelectSeq(get_log, IsGet)

\* the HTTP requests the call has sent, in order: the requests for the url
\* and the settings requests of _headers()
HttpRequests ==
    LET IsHttp(event) == event.op \in {"get", "settings"}
    IN  SelectSeq(get_log, IsHttp)

\* what the retry loop does with the responses to the requests for the url
\* when max_retries is N
RetryLoop(N) ==
    LET gets     == UrlRequests
        n        == Len(gets)
        finished == get_pc \in {"returned", "raised"}
        Transient(kind) == kind \in {"timeout", "connection", "5xx"}
    IN  /\ \A i \in 1..n : gets[i].attempt = i
        /\ \A i \in 1..(n - 1) : gets[i].kind \notin {"ok", "4xx"}
        /\ get_pc = "returned" =>
              /\ n >= 1 /\ gets[n].kind = "ok"
              /\ get_outcome = [kind |-> "body", attempt |-> n]
        /\ (n >= 1 /\ gets[n].kind = "ok") => get_pc = "returned"
        /\ (n >= 1 /\ gets[n].kind = "4xx") =>
              get_pc = "raised" /\ get_outcome = Exception("4xx", n)
        /\ (n >= 1 /\ Transient(gets[n].kind)) =>
              IF n < N THEN get_pc = "attempting" /\ get_attempt = n + 1
              ELSE get_pc = "raised"
                   /\ get_outcome = Exception(gets[n].kind, N)
        /\ \A i \in DOMAIN get_log :
              get_log[i].op = "sleep" =>
                 /\ i > 1 /\ get_log[i - 1].op = "get"
                 /\ Transient(get_log[i - 1].kind)
                       \/ get_log[i - 1].kind = "other"
                 /\ get_log[i - 1].attempt < N
                 /\ get_log[i].wait = RETRY_BACKOFF * get_log[i - 1].attempt
        /\ \A i \in DOMAIN get_log :
              (get_log[i].op = "get" /\ Transient(get_log[i].kind)
                 /\ get_log[i].attempt < N) =>
                    i < Len(get_log) /\ get_log[i + 1].op = "sleep"
        /\ (finished /\ get_log # <<>>) =>
              get_log[Len(get_log)].op = "get"

\* the settings requests of a call: none from a client that holds a key;
\* from a client without one, one directly before each request for the url
\* until a response carries a key
SettingsRequests ==
    LET IsSettings(event) == event.op = "settings"
        fetches == SelectSeq(get_log, IsSettings)
    IN  /\ get_request[3] # "" => fetches = <<>>
        /\ \A i \in DOMAIN get_log :
              get_log[i].op = "settings" =>
                 i < Len(get_log) /\ get_log[i + 1].op = "get"
        /\ \A i \in DOMAIN get_log :
              (get_log[i].op = "get" /\ get_request[3] = ""
                 /\ \A j \in 1..(i - 1) :
                       get_log[j].op = "settings" => get_log[j].key = "")
                 => i > 1 /\ get_log[i - 1].op = "settings"
        /\ \A i \in 1..(Len(fetches) - 1) : fetches[i].key = ""

\* last_exc is the RuntimeError of the first line until a retried failure
\* replaces it, and the exception raised when the loop ends is last_exc
RaisesLastExc ==
    get_request # <<>> =>
       LET failed == \E i \in DOMAIN get_log :
                        /\ get_log[i].op = "get"
                        /\ Retried(get_request[1], get_log[i].kind)
       IN  /\ ~failed => get_last_exc = Exception("RuntimeError", 0)
           /\ (get_pc = "raised" /\ get_outcome.kind \notin {"4xx", "other"})
                 => get_outcome = get_last_exc

\* C27 as it was stated: with max_retries = N >= 1 a _get call sends at most
\* N HTTP requests, the settings requests of _headers() counted with the
\* requests for the url, and retries as RetryLoop says
C27_AtMostNRequests ==
    (get_request # <<>> /\ get_request[2] >= 1) =>
       /\ Len(HttpRequests) <= get_request[2]
       /\ RetryLoop(get_request[2])

\* C27: with max_retries = N >= 1 a _get call sends at most N requests for
\* its url, and at most N HTTP requests in all when the client holds a key;
\* a client that holds no key sends one settings request before each
\* request for the url until a key is obtained, at most 2N HTTP requests in
\* all.  The call returns the body of the first ok response and sends
\* nothing after it; a 4xx is raised at once; a timeout, a connection error
\* and a 5xx are retried and the N-th of them is raised; the call sleeps
\* RETRY_BACKOFF * attempt after a failed attempt that is not the last, and
\* never otherwise
C27_RetryLoop ==
    (get_request # <<>> /\ get_request[2] >= 1) =>
       LET N == get_request[2]
       IN  /\ Len(UrlRequests) <= N
           /\ Len(HttpRequests) <= 2 * N
           /\ get_request[3] # "" => Len(HttpRequests) <= N
           /\ SettingsRequests
           /\ RetryLoop(N)

\* a client without a key and with max_retries = 3: the first settings
\* request gave no key and the request for the url timed out, the second
\* gave the key and the request met a 5xx, the third pass sent the request
\* alone and returned its body: five HTTP requests, sleeps of 2 and 4 seconds
C27_Witness ==
    /\ get_pc = "returned"
    /\ get_request[2] = 3
    /\ get_request[3] = ""
    /\ Len(UrlRequests) = 3
    /\ UrlRequests[1].kind = "timeout" /\ UrlRequests[2].kind = "5xx"
    /\ get_outcome = [kind |-> "body", attempt |-> 3]
    /\ Len(HttpRequests) = 5
    /\ get_log[1] = [op |-> "settings", key |-> ""]
    /\ get_log[3] = [op |-> "sleep", wait |-> 2]
    /\ get_log[4] = [op |-> "settings", key |-> "k"]
    /\ get_log[6] = [op |-> "sleep", wait |-> 4]
    /\ get_log[7].op = "get"

\* a client that holds a key, max_retries = 3: timeout, 5xx, ok, with three
\* HTTP requests in all
KeyedClientRetries ==
    /\ get_pc = "returned"
    /\ get_request[2] = 3
    /\ get_request[3] = "k"
    /\ Len(HttpRequests) = 3
    /\ UrlRequests[1].kind = "timeout" /\ UrlRequests[2].kind = "5xx"

\* a client without a key and with max_retries = 1 sent two HTTP requests
TwoRequestsForOneAttempt ==
    /\ get_pc = "returned"
    /\ get_request[2] = 1
    /\ Len(HttpRequests) = 2

\* a call with max_retries = 3 failed three times and raised the last
\* failure with no sleep after it
RetriesExhausted ==
    /\ get_pc = "raised"
    /\ get_request[2] = 3
    /\ Len(UrlRequests) = 3
    /\ get_outcome = Exception("connection", 3)
-----------------------------------------------------------------------------
(* Properties of the pagination specification *)

\* the items of pages 1..n of a feed, in page order
RECURSIVE ItemsThrough(_, _)
ItemsThrough(pages, n) ==
    IF n = 0 THEN <<>> ELSE ItemsThrough(pages, n - 1) \o pages[n].items

\* C28: the paginator requests page 1 with the caller's params and page
\* i > 1, the next link of page i - 1, with no params; it goes on while the
\* last response had a next link and stops at the first without; on a feed
\* of k pages it returns after exactly k requests the items of pages 1..k in
\* order, each once; a failed page request ends the call with nothing
\* returned
C28_Pagination ==
    pg_call # <<>> =>
       LET params == pg_call[2]
           pages  == pg_call[3]
           k      == Len(pages)
           n      == Len(pg_requests)
       IN  /\ n <= k
           /\ \A i \in 1..n :
                 /\ pg_requests[i].url = i
                 /\ pg_requests[i].params = IF i = 1 THEN params ELSE <<>>
           /\ pg_pc = "returned" =>
                 /\ n = k
                 /\ pg_outcome = ItemsThrough(pages, k)
                 /\ \A i, j \in DOMAIN pg_outcome :
                       pg_outcome[i] = pg_outcome[j] => i = j
           /\ pg_pc = "paging" =>
                 /\ n < k
                 /\ all_items = ItemsThrough(pages, n)
           /\ pg_pc = "raised" => pg_outcome = <<>>

\* a call with params on a feed of three pages, each with items, returned
\* after three requests
C28_Witness ==
    /\ pg_pc = "returned"
    /\ pg_call[2] # <<>>
    /\ Len(pg_call[3]) = 3
    /\ \A i \in 1..3 : pg_call[3][i].items # <<>>
    /\ Len(pg_requests) = 3
    /\ Len(pg_outcome) >= 3

\* the second page request of a call failed after the first page was
\* collected
SecondPageFailed ==
    /\ pg_pc = "raised"
    /\ Len(pg_requests) = 2
    /\ all_items # <<>>
-----------------------------------------------------------------------------
(* Properties of the station specification *)

\* C29: every call of _resolve_station for the grid cell returns the same
\* station id, whatever the interleaving of the threads and whether the
\* first lookup succeeded or failed, and no gridpoints request is sent
\* after a call for the cell has completed
C29_SameStationEveryCall ==
    /\ \A t, u \in StationThreads :
          \A i \in DOMAIN st_returned[t], j \in DOMAIN st_returned[u] :
             st_returned[t][i] = st_returned[u][j]
    /\ st_late_lookups = 0

\* the calls made one after the other agree: a thread that called when no
\* lookup was in flight is returned the cached id, and no request is sent
\* once a call has completed
NoLateLookup == st_late_lookups = 0

\* two threads were returned different ids for the cell
StationsDiffer ==
    \E t, u \in StationThreads :
       /\ st_returned[t] # <<>> /\ st_returned[u] # <<>>
       /\ st_returned[t][1] # st_returned[u][1]

====
